---- MODULE Spec2Model ----
(***************************************************************************)
(* A model of pyemu/utils/geostats.py: ordinary kriging (OrdinaryKrige,    *)
(* sequential and worker-pool factor calculation), the factors file        *)
(* writer and reader (to_grid_factors_file, fac2real) and the grouped      *)
(* ensemble helper of the spectral simulator (SpecSim2d).                  *)
(*                                                                         *)
(* Real numbers are exact rationals <<n, d>> (d > 0, lowest terms); NaN is *)
(* the pair <<0, 0>>.  Coordinates are integers taken from locations whose *)
(* mutual distances are integers, so np.sqrt is exact in the model.        *)
(***************************************************************************)
EXTENDS Integers, Sequences, FiniteSets, TLC

VARIABLES
  point_data,         \* OrdinaryKrige.point_data
  geostruct,          \* OrdinaryKrige.geostruct
  point_cov_df,       \* OrdinaryKrige.point_cov_df
  sort_kind,          \* how the build's sort orders equal distances
  grid_called,        \* history: calc_factors_grid has been called on the engine
  params,             \* minpts/maxpts/search_radius/forgive used by the calls
  interp_data,        \* OrdinaryKrige.interp_data ([none |-> TRUE] is None)
  spatial_reference,  \* OrdinaryKrige.spatial_reference
  caller,             \* the calling thread: where it is inside calc_factors(_grid)
  pool,               \* the manager lists of _calc_factors_mp
  wpc,                \* each worker process: its position in _worker
  wjob,               \* each worker process: the target it popped
  ret,                \* what the last finished call returned or raised
  hist,               \* the tables calc_factors returned, in order, with their arguments
  ncalls,             \* calls started so far
  factors_file,       \* the factors file on disk
  fac,                \* what the last fac2real call returned or raised
  sim,                \* the SpecSim2d object: its structure and its kernel
  sret,               \* what the last SpecSim2d call returned or raised
  gcov,               \* what the last GeoStruct.covariance call returned
  ctor,               \* what the last OrdinaryKrige(...) construction did
  sfile,              \* what the last read_struct_file call returned or raised
  kern                \* the covariance grid of the last SpecSim2d built over a variogram

\* ------------------------------------------------------------------------
\* Exact rational arithmetic (the model's float)
\* ------------------------------------------------------------------------
Abs(n) == IF n < 0 THEN -n ELSE n

\* the sequence <<F(1), ..., F(n)>>, built element by element
RECURSIVE Tab(_, _)
Tab(F(_), n) == IF n = 0 THEN <<>> ELSE Append(Tab(F, n - 1), F(n))

RECURSIVE Gcd(_, _)
Gcd(a, b) == IF b = 0 THEN a ELSE Gcd(b, a % b)

Rat(n, d) ==
  LET g == Gcd(Abs(n), Abs(d))
      s == IF d < 0 THEN -1 ELSE 1
  IN  IF n = 0 THEN <<0, 1>> ELSE <<s * (n \div g), s * (d \div g)>>

R(n) == <<n, 1>>

NaN == <<0, 0>>

IsNaN(q) == q[2] = 0

RAdd(p, q) ==
  LET g == Gcd(p[2], q[2])
  IN  Rat(p[1] * (q[2] \div g) + q[1] * (p[2] \div g), (p[2] \div g) * q[2])

RNeg(p) == <<-p[1], p[2]>>

RSub(p, q) == RAdd(p, RNeg(q))

RMul(p, q) ==
  LET a == Rat(p[1], q[2])
      b == Rat(q[1], p[2])
  IN  Rat(a[1] * b[1], a[2] * b[2])

RDiv(p, q) == IF q[1] < 0 THEN RMul(p, <<-q[2], -q[1]>>) ELSE RMul(p, <<q[2], q[1]>>)

\* the sign of n1/d1 - n2/d2, by continued fractions (no products)
RECURSIVE RCmp(_, _, _, _)
RCmp(n1, d1, n2, d2) ==
  LET q1 == n1 \div d1
      q2 == n2 \div d2
      r1 == n1 % d1
      r2 == n2 % d2
  IN  IF q1 # q2 THEN (IF q1 < q2 THEN -1 ELSE 1)
      ELSE IF r1 = 0 \/ r2 = 0 THEN (IF r1 = r2 THEN 0 ELSE IF r1 = 0 THEN -1 ELSE 1)
      ELSE RCmp(d2, r2, d1, r1)

RLt(p, q) == RCmp(p[1], p[2], q[1], q[2]) < 0

RLe(p, q) == RCmp(p[1], p[2], q[1], q[2]) <= 0

RECURSIVE RSum(_)
RSum(s) == IF s = <<>> THEN R(0) ELSE RAdd(Head(s), RSum(Tail(s)))

\* np.sqrt of a squared distance; the model's locations make it a perfect square
Sqrt(n) == CHOOSE r \in 0..n : r * r = n

\* ------------------------------------------------------------------------
\* Vario2d and GeoStruct
\* ------------------------------------------------------------------------
EPSILON == <<1, 10000000>>

\* cos and sin of Vario2d.bearing_rads for the grid-aligned bearings
BearingCos(bearing) == IF bearing % 180 = 0 THEN 0 ELSE IF bearing % 360 = 90 THEN 1 ELSE -1

BearingSin(bearing) == IF bearing % 180 = 90 THEN 0 ELSE IF bearing % 360 = 0 THEN 1 ELSE -1

\* Vario2d._apply_rotation: <<dxx, dyy>>
ApplyRotation(v, dx, dy) ==
  IF v.anisotropy = 1 THEN <<dx, dy>>
  ELSE <<dx * BearingCos(v.bearing) + dy * BearingSin(v.bearing),
         (dx * (-BearingSin(v.bearing)) + dy * BearingCos(v.bearing)) * v.anisotropy>>

\* SphVario._h_function at distance h (an integer number of length units)
SphHFunction(v, h) ==
  LET hh  == Rat(h, v.a)
      val == RMul(R(v.contribution),
                  RSub(R(1), RMul(hh, RSub(<<3, 2>>, RMul(<<1, 2>>, RMul(hh, hh))))))
  IN  IF RLt(R(1), hh) THEN R(0) ELSE val

\* Vario2d.covariance_points for one other point
VarioCovPoint(v, x0, y0, x1, y1) ==
  LET d == ApplyRotation(v, x0 - x1, y0 - y1)
  IN  SphHFunction(v, Sqrt(d[1] * d[1] + d[2] * d[2]))

\* Vario2d.covariance_matrix: the entry added for the pair (i1, j), j > i1
VarioCovEntry(v, x1, y1, x2, y2) ==
  LET d == ApplyRotation(v, x1 - x2, y1 - y2)
  IN  SphHFunction(v, Sqrt(d[1] * d[1] + d[2] * d[2]))

\* GeoStruct.sill
Sill(gs) ==
  RAdd(gs.nugget, RSum(Tab(LAMBDA k : R(gs.variograms[k].contribution), Len(gs.variograms))))

\* GeoStruct.covariance_points: one value per other point
GsCovPoints(gs, x0, y0, others) ==
  Tab(LAMBDA k : RAdd(gs.nugget,
          RSum(Tab(LAMBDA m : VarioCovPoint(gs.variograms[m], x0, y0, others[k].x, others[k].y), Len(gs.variograms)))), Len(others))

\* GeoStruct.covariance_matrix(x, y, names): nugget and contributions on the
\* diagonal, the variograms' h function off the diagonal
GsCovMatrix(gs, rows) ==
  Tab(LAMBDA i : Tab(LAMBDA j : IF i = j THEN Sill(gs)
     ELSE LET a == IF i < j THEN i ELSE j
              b == IF i < j THEN j ELSE i
          IN  RSum(Tab(LAMBDA m : VarioCovEntry(gs.variograms[m], rows[a].x, rows[a].y,
                                    rows[b].x, rows[b].y), Len(gs.variograms))), Len(rows)), Len(rows))

\* ------------------------------------------------------------------------
\* Linear algebra: np.linalg.solve in exact arithmetic
\* ------------------------------------------------------------------------
DropAt(s, k) == Tab(LAMBDA i : IF i < k THEN s[i] ELSE s[i + 1], Len(s) - 1)

Minor(A, j) == Tab(LAMBDA i : DropAt(A[i + 1], j), Len(A) - 1)

RECURSIVE Det(_)
Det(A) ==
  IF Len(A) = 1 THEN A[1][1]
  ELSE RSum(Tab(LAMBDA j : IF A[1][j][1] = 0 THEN R(0)
               ELSE RMul(IF j % 2 = 1 THEN A[1][j] ELSE RNeg(A[1][j]), Det(Minor(A, j))), Len(A)))

ReplaceCol(A, j, rhs) == Tab(LAMBDA i : Tab(LAMBDA k : IF k = j THEN rhs[i] ELSE A[i][k], Len(A)), Len(A))

\* OrdinaryKrige._solve: LinAlgError on a singular matrix, else the solution
Solve(A, rhs) ==
  LET d == Det(A)
  IN  IF d[1] = 0 THEN [ok |-> FALSE, x |-> <<>>]
      ELSE [ok |-> TRUE, x |-> Tab(LAMBDA j : RDiv(Det(ReplaceCol(A, j, rhs)), d), Len(A))]

\* OrdinaryKrige._form: the kriging matrix and right-hand side
Form(point_cov, interp_cov) ==
  LET k == Len(interp_cov)
  IN  [A   |-> Tab(LAMBDA i : Tab(LAMBDA j : IF i <= k /\ j <= k THEN point_cov[i][j]
                  ELSE IF i = k + 1 /\ j = k + 1 THEN R(0) ELSE R(1), k + 1), k + 1),
       rhs |-> Tab(LAMBDA i : IF i <= k THEN interp_cov[i] ELSE R(1), k + 1)]

\* ------------------------------------------------------------------------
\* OrdinaryKrige: per-target factor calculation
\* ------------------------------------------------------------------------
\* a NaN target coordinate (np.NaN in x or y)
NanCoord == -1000

IsNanCoord(c) == c = NanCoord

\* a sort whose order of equal keys changes from one call to the next
RECURSIVE SortValuesByCall(_, _)
SortValuesByCall(dist, kind) ==
  IF dist = <<>> THEN <<>>
  ELSE LET n    == Len(dist)
           mins == {i \in 1..n : \A j \in 1..n : dist[i].d2 <= dist[j].d2}
           pick == IF (kind = "stable") = (ncalls % 2 = 0)
                   THEN CHOOSE i \in mins : \A j \in mins : i <= j
                   ELSE CHOOSE i \in mins : \A j \in mins : i >= j
       IN  <<dist[pick]>> \o SortValuesByCall(DropAt(dist, pick), kind)

\* pandas Series.sort_values on the squared distances: ascending; the order of
\* equal keys is fixed by the sort the build uses (first-come or last-come)
RECURSIVE SortValues(_, _)
SortValues(dist, kind) ==
  IF dist = <<>> THEN <<>>
  ELSE LET n    == Len(dist)
           mins == {i \in 1..n : \A j \in 1..n : dist[i].d2 <= dist[j].d2}
           pick == IF kind = "stable"
                   THEN CHOOSE i \in mins : \A j \in mins : i <= j
                   ELSE CHOOSE i \in mins : \A j \in mins : i >= j
       IN  <<dist[pick]>> \o SortValues(DropAt(dist, pick), kind)

\* the candidate points of a batch: all rows, or the rows of zone pt_zone
NoZone == 0

Candidates(rows, pt_zone) ==
  IF pt_zone = NoZone THEN rows
  ELSE LET InZone(r) == r.zone = pt_zone IN SelectSeq(rows, InZone)

\* _dist_calcs without the sort: the points within the radius in table order
DistCalcsUnsorted(ix, iy, cands, sqradius, kind) ==
  LET Near(e) == e.d2 <= sqradius
  IN  SelectSeq(Tab(LAMBDA k : [name |-> cands[k].name,
                    d2   |-> (cands[k].x - ix) * (cands[k].x - ix)
                             + (cands[k].y - iy) * (cands[k].y - iy)], Len(cands)), Near)

\* OrdinaryKrige._dist_calcs: squared distances, sorted, cut at the radius
DistCalcs(ix, iy, cands, sqradius, kind) ==
  LET dist   == Tab(LAMBDA k : [name |-> cands[k].name,
                    d2   |-> (cands[k].x - ix) * (cands[k].x - ix)
                             + (cands[k].y - iy) * (cands[k].y - iy)], Len(cands))
      sorted == SortValues(dist, kind)
      Near(e) == e.d2 <= sqradius
  IN  SelectSeq(sorted, Near)

\* the truncation taken from the far end of the sorted distances
TruncSqrtFar(dist, maxpts) ==
  LET n == IF Len(dist) < maxpts THEN Len(dist) ELSE maxpts
  IN  Tab(LAMBDA k : [name |-> dist[Len(dist) - n + k].name, h |-> Sqrt(dist[Len(dist) - n + k].d2)], n)

\* dist.iloc[:maxpts_interp].apply(np.sqrt)
TruncSqrt(dist, maxpts) ==
  Tab(LAMBDA k : [name |-> dist[k].name, h |-> Sqrt(dist[k].d2)], IF Len(dist) < maxpts THEN Len(dist) ELSE maxpts)

\* position of a name in the point table (point_data.loc[name], point_cov_df.loc[name])
NameIdx(rows, name) == CHOOSE i \in 1..Len(rows) : rows[i].name = name

\* point_cov_df.loc[pt_names, pt_names]
SubCov(cov, rows, names) ==
  Tab(LAMBDA i : Tab(LAMBDA j : cov[NameIdx(rows, names[i])][NameIdx(rows, names[j])], Len(names)), Len(names))

\* OrdinaryKrige._cov_points
CovPoints(gs, rows, ix, iy, names) ==
  GsCovPoints(gs, ix, iy, Tab(LAMBDA k : rows[NameIdx(rows, names[k])], Len(names)))

\* err_var = sill + facs[-1] - sum(f * c for f, c in zip(facs[:-1], interp_cov))
ErrVar(gs, facs, interp_cov) ==
  RSub(RAdd(Sill(gs), facs[Len(facs)]),
       RSum(Tab(LAMBDA k : RMul(facs[k], interp_cov[k]), Len(interp_cov))))

EmptyRow(idx, ix, iy, ev) ==
  [idx |-> idx, x |-> ix, y |-> iy, idist |-> <<>>, inames |-> <<>>,
   ifacts |-> <<>>, err_var |-> ev]

SolveSys(sys) == Solve(sys.A, sys.rhs)

Names(dist) == Tab(LAMBDA k : dist[k].name, Len(dist))

\* a loop body that skips a failed solve whatever forgive says
OrgSolvedSkips(ok, idx, ix, iy, a, dist, pt_names, interp_cov, facs) ==
  IF ~facs.ok
  THEN [kind |-> "row", solved |-> TRUE, row |-> EmptyRow(idx, ix, iy, NaN)]
  ELSE [kind |-> "row", solved |-> TRUE,
        row |-> [idx |-> idx, x |-> ix, y |-> iy,
                 idist |-> Tab(LAMBDA k : R(dist[k].h), Len(dist)),
                 inames |-> pt_names,
                 ifacts |-> Tab(LAMBDA k : facs.x[k], Len(dist)),
                 err_var |-> ErrVar(ok.geostruct, facs.x, interp_cov)]]

\* _calc_factors_org after _solve: the forgiven or fatal failure, else the row
OrgSolved(ok, idx, ix, iy, a, dist, pt_names, interp_cov, facs) ==
  IF ~facs.ok
  THEN IF a.forgive
       THEN [kind |-> "row", solved |-> TRUE, row |-> EmptyRow(idx, ix, iy, NaN)]
       ELSE [kind |-> "raise", solved |-> TRUE, row |-> EmptyRow(idx, ix, iy, NaN)]
  ELSE [kind |-> "row", solved |-> TRUE,
        row |-> [idx |-> idx, x |-> ix, y |-> iy,
                 idist |-> Tab(LAMBDA k : R(dist[k].h), Len(dist)),
                 inames |-> pt_names,
                 ifacts |-> Tab(LAMBDA k : facs.x[k], Len(dist)),
                 err_var |-> ErrVar(ok.geostruct, facs.x, interp_cov)]]

\* _calc_factors_org from the covariances on: _form and _solve
OrgSystem(ok, idx, ix, iy, a, dist, pt_names, point_cov, interp_cov) ==
  OrgSolved(ok, idx, ix, iy, a, dist, pt_names, interp_cov,
            SolveSys(Form(point_cov, interp_cov)))

\* a loop body without the exact-match shortcut: every target is solved
OrgSelectedNoShortcut(ok, idx, ix, iy, a, dist, pt_names) ==
  OrgSystem(ok, idx, ix, iy, a, dist, pt_names,
            SubCov(ok.point_cov_df, ok.point_data.rows, pt_names),
            CovPoints(ok.geostruct, ok.point_data.rows, ix, iy, pt_names))

\* _calc_factors_org on the selected neighbours: the exact-match shortcut,
\* else the kriging system
OrgSelected(ok, idx, ix, iy, a, dist, pt_names) ==
  IF RLe(R(dist[1].h), EPSILON)
  THEN [kind |-> "row", solved |-> FALSE,
        row |-> [idx |-> idx, x |-> ix, y |-> iy, idist |-> <<EPSILON>>,
                 inames |-> <<dist[1].name>>, ifacts |-> <<R(1)>>,
                 err_var |-> ok.geostruct.nugget]]
  ELSE OrgSystem(ok, idx, ix, iy, a, dist, pt_names,
                 SubCov(ok.point_cov_df, ok.point_data.rows, pt_names),
                 CovPoints(ok.geostruct, ok.point_data.rows, ix, iy, pt_names))

OrgTrunc(ok, idx, ix, iy, a, dist) == OrgSelected(ok, idx, ix, iy, a, dist, Names(dist))

\* _calc_factors_org on the points within the radius: the min-neighbour test,
\* then the truncation to maxpts_interp
OrgNear(ok, idx, ix, iy, a, dist0) ==
  IF Len(dist0) < a.minpts_interp
  THEN [kind |-> "row", solved |-> FALSE,
        row |-> EmptyRow(idx, ix, iy, Sill(ok.geostruct))]
  ELSE OrgTrunc(ok, idx, ix, iy, a, TruncSqrt(dist0, a.maxpts_interp))

\* One pass of the loop body of _calc_factors_org for target idx.
\* kind: "row" (a row is appended) or "raise" (the call aborts);
\* solved: whether _solve was invoked for this target.
OrgTarget(ok, idx, ix, iy, a) ==
  IF IsNanCoord(ix) \/ IsNanCoord(iy)
  THEN [kind |-> "row", solved |-> FALSE, row |-> EmptyRow(idx, ix, iy, NaN)]
  ELSE OrgNear(ok, idx, ix, iy, a,
               DistCalcs(ix, iy, Candidates(ok.point_data.rows, a.pt_zone),
                         a.search_radius * a.search_radius, ok.sort_kind))

\* The loop of _calc_factors_org over the targets: the rows appended so far,
\* the targets for which _solve ran, and whether the loop raised.
RECURSIVE OrgLoop(_, _, _, _, _)
OrgStep(ok, targets, a, i, acc, r) ==
  IF r.kind = "raise"
  THEN [raised |-> TRUE, rows |-> acc.rows,
        solves |-> IF r.solved THEN acc.solves \cup {i - 1} ELSE acc.solves]
  ELSE OrgLoop(ok, targets, a, i + 1,
               [raised |-> FALSE, rows |-> Append(acc.rows, r.row),
                solves |-> IF r.solved THEN acc.solves \cup {i - 1} ELSE acc.solves])

OrgLoop(ok, targets, a, i, acc) ==
  IF i > Len(targets) THEN acc
  ELSE OrgStep(ok, targets, a, i, acc,
               OrgTarget(ok, i - 1, targets[i][1], targets[i][2], a))

\* _calc_factors_org up to the assembly of df; pt_data.zone raises when a
\* zone is asked for and point_data has no zone column
CalcFactorsOrg(ok, targets, a) ==
  IF a.pt_zone # NoZone /\ ~ok.point_data.zonecol
  THEN [raised |-> TRUE, rows |-> <<>>, solves |-> {}]
  ELSE OrgLoop(ok, targets, a, 1, [raised |-> FALSE, rows |-> <<>>, solves |-> {}])

\* self.interp_data after a batch returned df (both paths end the same way)
StoreInterp(old, df, pt_zone) ==
  IF pt_zone = NoZone THEN [none |-> FALSE, rows |-> df]
  ELSE IF old.none THEN [none |-> FALSE, rows |-> df]
  ELSE [none |-> FALSE, rows |-> old.rows \o df]

\* ------------------------------------------------------------------------
\* OrdinaryKrige._worker: one pass of the loop body for a popped target.
\* The result is the set of slot writes the pass makes.
\* ------------------------------------------------------------------------
\* after np.linalg.solve: a failure skips the target, whatever forgive says
WorkerSolved(w, idx, ix, iy, dist, pt_names, interp_cov, facs) ==
  IF ~facs.ok
  THEN [write |-> "none", solved |-> TRUE, row |-> EmptyRow(idx, ix, iy, NaN)]
  ELSE [write |-> "all", solved |-> TRUE,
        row |-> [idx |-> idx, x |-> ix, y |-> iy,
                 idist |-> Tab(LAMBDA k : R(dist[k].h), Len(dist)),
                 inames |-> pt_names,
                 ifacts |-> Tab(LAMBDA k : facs.x[k], Len(dist)),
                 err_var |-> ErrVar(w.geostruct, facs.x, interp_cov)]]

\* the kriging matrix and right-hand side the worker builds in line
WorkerForm(point_cov, interp_cov, d) ==
  [A   |-> Tab(LAMBDA i : Tab(LAMBDA j : IF i < d /\ j < d THEN point_cov[i][j]
                  ELSE IF i = d /\ j = d THEN R(0) ELSE R(1), d), d),
   rhs |-> Tab(LAMBDA i : IF i < d THEN interp_cov[i] ELSE R(1), d)]

WorkerSystem(w, idx, ix, iy, dist, pt_names, point_cov, interp_cov) ==
  WorkerSolved(w, idx, ix, iy, dist, pt_names, interp_cov,
               SolveSys(WorkerForm(point_cov, interp_cov, Len(pt_names) + 1)))

WorkerSelected(w, idx, ix, iy, dist, pt_names) ==
  IF RLe(R(dist[1].h), w.epsilon)
  THEN [write |-> "all", solved |-> FALSE,
        row |-> [idx |-> idx, x |-> ix, y |-> iy, idist |-> <<w.epsilon>>,
                 inames |-> <<dist[1].name>>, ifacts |-> <<R(1)>>,
                 err_var |-> w.geostruct.nugget]]
  ELSE WorkerSystem(w, idx, ix, iy, dist, pt_names,
                    SubCov(w.point_cov_df, w.point_data.rows, pt_names),
                    GsCovPoints(w.geostruct, ix, iy,
                      Tab(LAMBDA k : w.point_data.rows[NameIdx(w.point_data.rows, pt_names[k])],
                          Len(pt_names))))

WorkerTrunc(w, idx, ix, iy, dist) == WorkerSelected(w, idx, ix, iy, dist, Names(dist))

\* too few points within the radius: only err_var[idx] is written
WorkerNear(w, idx, ix, iy, dist1) ==
  IF Len(dist1) < w.minpts_interp
  THEN [write |-> "err_var", solved |-> FALSE,
        row |-> EmptyRow(idx, ix, iy, Sill(w.geostruct))]
  ELSE WorkerTrunc(w, idx, ix, iy, TruncSqrt(dist1, w.maxpts_interp))

\* the worker's own distance calculation: squared distances, sorted, radius cut
WorkerDist(ix, iy, cands, sqr, kind) ==
  LET Near(e) == e.d2 <= sqr
  IN  SelectSeq(SortValues(Tab(LAMBDA k : [name |-> cands[k].name,
                    d2   |-> (cands[k].x - ix) * (cands[k].x - ix)
                             + (cands[k].y - iy) * (cands[k].y - iy)], Len(cands)),
                  kind), Near)

WorkerTarget(w, idx, ix, iy) ==
  IF IsNanCoord(ix) \/ IsNanCoord(iy)
  THEN [write |-> "none", solved |-> FALSE, row |-> EmptyRow(idx, ix, iy, NaN)]
  ELSE WorkerNear(w, idx, ix, iy,
                  WorkerDist(ix, iy, Candidates(w.point_data.rows, w.pt_zone),
                             w.search_radius * w.search_radius, w.sort_kind))

\* ------------------------------------------------------------------------
\* Bounds and the inputs the behaviours draw from
\* ------------------------------------------------------------------------
\* number of API calls started in one behaviour
MaxCalls == 2

\* num_threads of a worker-pool batch
NumWorkers == 2

Workers == 1..NumWorkers

\* the sill's variogram: one spherical variogram of range 10
Vario1 == [vartype |-> 1, contribution |-> 1, a |-> 10, anisotropy |-> 1, bearing |-> 0]

GeoStructs ==
  { [nugget |-> R(0), variograms |-> <<Vario1>>, transform |-> "none"],
    [nugget |-> R(1), variograms |-> <<Vario1>>, transform |-> "log"] }

\* point tables as the constructor leaves them (unique names)
PtsZoned ==
  [zonecol |-> TRUE,
   rows |-> << [name |-> "p1", x |-> 0, y |-> 0, zone |-> 1],
               [name |-> "p2", x |-> 3, y |-> 4, zone |-> 1],
               [name |-> "p3", x |-> 6, y |-> 8, zone |-> 2] >>]

PtsClose ==
  [zonecol |-> FALSE,
   rows |-> << [name |-> "p1", x |-> 3, y |-> 4, zone |-> NoZone],
               [name |-> "p2", x |-> 3, y |-> 4, zone |-> NoZone],
               [name |-> "p3", x |-> 6, y |-> 0, zone |-> NoZone] >>]

\* spatial_reference: a 2 x 2 grid; xcentergrid.ravel(), ycentergrid.ravel()
GridShape == [nrow |-> 2, ncol |-> 2]

GridTargets == << <<0, 8>>, <<6, 8>>, <<0, 0>>, <<6, 0>> >>

\* zone arrays (ravelled) for calc_factors_grid; <<>> stands for None
ZoneArrays == { <<1, 1, 2, 3>>, <<1, 1, 3, 3>> }

\* target lists for direct calc_factors calls
TargetLists ==
  { << <<0, 8>>, <<NanCoord, 0>>, <<0, 0>> >>,
    << <<3, 4>>, <<6, 0>>, <<6, 8>> >> }

\* minpts_interp, maxpts_interp, search_radius and forgive of a behaviour's calls
Args(prm, pt_zone, num_threads) ==
  [minpts_interp |-> prm.minpts_interp, maxpts_interp |-> prm.maxpts_interp,
   search_radius |-> prm.search_radius, forgive |-> prm.forgive,
   pt_zone |-> pt_zone, num_threads |-> num_threads]

NoArgs == [minpts_interp |-> 0, maxpts_interp |-> 0, search_radius |-> 0,
           forgive |-> FALSE, pt_zone |-> NoZone, num_threads |-> 0]

\* ------------------------------------------------------------------------
\* State
\* ------------------------------------------------------------------------
kvars == <<point_data, geostruct, point_cov_df, sort_kind, params, grid_called, interp_data,
           spatial_reference, caller, pool, wpc, wjob, ret, hist, ncalls>>

fvars == <<factors_file, fac>>

svars == <<sim, sret>>

ovars == <<gcov, ctor, sfile, kern>>

Engine ==
  [point_data |-> point_data, geostruct |-> geostruct,
   point_cov_df |-> point_cov_df, sort_kind |-> sort_kind]

NoneInterp == [none |-> TRUE, rows |-> <<>>]

IdleCaller ==
  [pc |-> "idle", op |-> "none", a |-> NoArgs, targets |-> <<>>,
   zone_array |-> <<>>, zones |-> <<>>, dfs |-> <<>>, warnings |-> <<>>]

EmptyPool ==
  [point_pairs |-> <<>>, idist |-> <<>>, inames |-> <<>>, ifacts |-> <<>>,
   err_var |-> <<>>, solves |-> {}, taken |-> <<>>, writes |-> <<>>]

NoRet ==
  [op |-> "none", outcome |-> "none", a |-> NoArgs, targets |-> <<>>,
   zone_array |-> <<>>, df |-> <<>>, solves |-> {}, warnings |-> <<>>]

\* the engines and call arguments explored: points, structure, tie order of
\* the sort, and the minpts/maxpts/search_radius/forgive of the calls
Scenarios ==
  { [point_data |-> PtsClose, nugget |-> R(0), sort_kind |-> "stable",
     minpts_interp |-> 1, maxpts_interp |-> 3, search_radius |-> 100, forgive |-> FALSE],
    [point_data |-> PtsClose, nugget |-> R(0), sort_kind |-> "reverse",
     minpts_interp |-> 2, maxpts_interp |-> 2, search_radius |-> 100, forgive |-> TRUE],
    [point_data |-> PtsClose, nugget |-> R(1), sort_kind |-> "stable",
     minpts_interp |-> 1, maxpts_interp |-> 2, search_radius |-> 6, forgive |-> TRUE],
    [point_data |-> PtsZoned, nugget |-> R(0), sort_kind |-> "reverse",
     minpts_interp |-> 1, maxpts_interp |-> 3, search_radius |-> 100, forgive |-> FALSE],
    [point_data |-> PtsZoned, nugget |-> R(1), sort_kind |-> "stable",
     minpts_interp |-> 2, maxpts_interp |-> 3, search_radius |-> 5, forgive |-> FALSE],
    [point_data |-> PtsZoned, nugget |-> R(1), sort_kind |-> "reverse",
     minpts_interp |-> 2, maxpts_interp |-> 2, search_radius |-> 100, forgive |-> TRUE] }

\* the state after OrdinaryKrige.__init__
EngineInit(s) ==
  /\ point_data = s.point_data
  /\ geostruct \in {g \in GeoStructs : g.nugget = s.nugget}
  /\ point_cov_df = GsCovMatrix(geostruct, point_data.rows)
  /\ sort_kind = s.sort_kind
  /\ grid_called = FALSE
  /\ params = [minpts_interp |-> s.minpts_interp, maxpts_interp |-> s.maxpts_interp,
               search_radius |-> s.search_radius, forgive |-> s.forgive]
  /\ interp_data = NoneInterp
  /\ spatial_reference = [none |-> TRUE, nrow |-> 0, ncol |-> 0]
  /\ caller = IdleCaller
  /\ pool = EmptyPool
  /\ wpc = [w \in Workers |-> "idle"]
  /\ wjob = [w \in Workers |-> <<0, 0, 0>>]
  /\ ret = NoRet
  /\ hist = <<>>
  /\ ncalls = 0

KrigeInit == \E s \in Scenarios : EngineInit(s)

\* ------------------------------------------------------------------------
\* calc_factors, sequential path (num_threads == 1)
\* ------------------------------------------------------------------------
Returned(op, a, targets, zone_array, df, solves) ==
  [op |-> op, outcome |-> "returned", a |-> a, targets |-> targets,
   zone_array |-> zone_array, df |-> df, solves |-> solves, warnings |-> <<>>]

Raised(op, a, targets, zone_array, solves) ==
  [op |-> op, outcome |-> "raised", a |-> a, targets |-> targets,
   zone_array |-> zone_array, df |-> <<>>, solves |-> solves, warnings |-> <<>>]

\* a returned calc_factors call: its arguments, the engine's points, its table
HistEntry(a, targets, df) ==
  [a |-> a, targets |-> targets, df |-> df,
   points |-> Tab(LAMBDA k : point_data.rows[k].name, Len(point_data.rows))]

CalcFactorsSeq(targets, pt_zone) ==
  /\ caller.pc = "idle"
  /\ ncalls < MaxCalls
  /\ LET a == Args(params, pt_zone, 1)
         r == CalcFactorsOrg(Engine, targets, a)
     IN  IF r.raised
         THEN /\ ret' = Raised("factors", a, targets, <<>>, r.solves)
              /\ UNCHANGED <<interp_data, hist>>
         ELSE /\ interp_data' = StoreInterp(interp_data, r.rows, pt_zone)
              /\ ret' = Returned("factors", a, targets, <<>>, r.rows, r.solves)
              /\ hist' = Append(hist, HistEntry(a, targets, r.rows))
  /\ ncalls' = ncalls + 1
  /\ UNCHANGED <<point_data, geostruct, point_cov_df, sort_kind, params, grid_called,
                 spatial_reference, caller, pool, wpc, wjob>>
  /\ UNCHANGED <<fvars, svars, ovars>>

\* ------------------------------------------------------------------------
\* calc_factors, worker-pool path (_calc_factors_mp and _worker)
\* ------------------------------------------------------------------------
\* manager lists whose result slots start at zero instead of NaN
StartPoolZero(targets) ==
  [point_pairs |-> Tab(LAMBDA i : <<i - 1, targets[i][1], targets[i][2]>>, Len(targets)),
   idist       |-> Tab(LAMBDA i : <<>>, Len(targets)),
   inames      |-> Tab(LAMBDA i : <<>>, Len(targets)),
   ifacts      |-> Tab(LAMBDA i : <<>>, Len(targets)),
   err_var     |-> Tab(LAMBDA i : R(0), Len(targets)),
   solves      |-> {},
   taken       |-> Tab(LAMBDA i : 0, Len(targets)),
   writes      |-> Tab(LAMBDA i : 0, Len(targets))]

\* the manager lists before the processes start; taken and writes count, for
\* each target, the pops of its tuple and the worker passes that wrote its slot
StartPool(targets) ==
  [point_pairs |-> Tab(LAMBDA i : <<i - 1, targets[i][1], targets[i][2]>>, Len(targets)),
   idist       |-> Tab(LAMBDA i : <<>>, Len(targets)),
   inames      |-> Tab(LAMBDA i : <<>>, Len(targets)),
   ifacts      |-> Tab(LAMBDA i : <<>>, Len(targets)),
   err_var     |-> Tab(LAMBDA i : NaN, Len(targets)),
   solves      |-> {},
   taken       |-> Tab(LAMBDA i : 0, Len(targets)),
   writes      |-> Tab(LAMBDA i : 0, Len(targets))]

CalcFactorsMp(targets, pt_zone) ==
  /\ caller.pc = "idle"
  /\ ncalls < MaxCalls
  /\ pool' = StartPool(targets)
  /\ wpc' = [w \in Workers |-> "start"]
  /\ caller' = [IdleCaller EXCEPT !.pc = "mp", !.op = "factors",
                                  !.a = Args(params, pt_zone, NumWorkers),
                                  !.targets = targets]
  /\ ncalls' = ncalls + 1
  /\ UNCHANGED <<point_data, geostruct, point_cov_df, sort_kind, params, grid_called,
                 interp_data, spatial_reference, wjob, ret, hist>>
  /\ UNCHANGED <<fvars, svars, ovars>>

\* the arguments a worker process was started with
WorkerArgs ==
  [point_data |-> point_data, point_cov_df |-> point_cov_df, geostruct |-> geostruct,
   epsilon |-> EPSILON, search_radius |-> caller.a.search_radius,
   pt_zone |-> caller.a.pt_zone, minpts_interp |-> caller.a.minpts_interp,
   maxpts_interp |-> caller.a.maxpts_interp, sort_kind |-> sort_kind]

kframe == <<point_data, geostruct, point_cov_df, sort_kind, params, grid_called, interp_data,
            spatial_reference, caller, ret, hist, ncalls>>

\* pt_zone is not None: the static method reads self.point_data and the
\* process dies with a NameError before its loop
WorkerCrash(w) ==
  /\ wpc[w] = "start"
  /\ caller.a.pt_zone # NoZone
  /\ wpc' = [wpc EXCEPT ![w] = "crashed"]
  /\ UNCHANGED <<kframe, pool, wjob>>
  /\ UNCHANGED <<fvars, svars, ovars>>

\* if len(point_pairs) == 0: return
WorkerLen(w) ==
  /\ \/ wpc[w] = "start" /\ caller.a.pt_zone = NoZone
     \/ wpc[w] = "check"
  /\ wpc' = [wpc EXCEPT ![w] = IF Len(pool.point_pairs) = 0 THEN "done" ELSE "pop"]
  /\ UNCHANGED <<kframe, pool, wjob>>
  /\ UNCHANGED <<fvars, svars, ovars>>

\* point_pairs.pop(0) on the manager list: the head leaves the list in the
\* same manager call that returns it
ManagerPop(point_pairs) == Tail(point_pairs)

\* idx, ix, iy = point_pairs.pop(0); an IndexError ends the worker
WorkerPop(w) ==
  /\ wpc[w] = "pop"
  /\ IF Len(pool.point_pairs) = 0
     THEN /\ wpc' = [wpc EXCEPT ![w] = "done"]
          /\ UNCHANGED <<pool, wjob>>
     ELSE /\ wjob' = [wjob EXCEPT ![w] = Head(pool.point_pairs)]
          /\ pool' = [pool EXCEPT !.point_pairs = ManagerPop(pool.point_pairs),
                                  !.taken[Head(pool.point_pairs)[1] + 1] = @ + 1]
          /\ wpc' = [wpc EXCEPT ![w] = "work"]
  /\ UNCHANGED kframe
  /\ UNCHANGED <<fvars, svars, ovars>>

\* writes that land in the slot of the latest popped target, not in slot idx
WriteSlotsLatest(pl, r) ==
  LET k == Len(pl.err_var) - Len(pl.point_pairs)
      s == IF r.solved THEN pl.solves \cup {r.row.idx} ELSE pl.solves
  IN  IF r.write = "none" THEN [pl EXCEPT !.solves = s]
      ELSE IF r.write = "err_var"
      THEN [pl EXCEPT !.err_var[k] = r.row.err_var, !.solves = s, !.writes[k] = @ + 1]
      ELSE [pl EXCEPT !.ifacts[k] = r.row.ifacts, !.idist[k] = r.row.idist,
                      !.inames[k] = r.row.inames, !.err_var[k] = r.row.err_var,
                      !.solves = s, !.writes[k] = @ + 1]

\* the writes of one pass into the manager lists, slot idx
WriteSlots(pl, r) ==
  LET k == r.row.idx + 1
      s == IF r.solved THEN pl.solves \cup {r.row.idx} ELSE pl.solves
  IN  IF r.write = "none" THEN [pl EXCEPT !.solves = s]
      ELSE IF r.write = "err_var"
      THEN [pl EXCEPT !.err_var[k] = r.row.err_var, !.solves = s, !.writes[k] = @ + 1]
      ELSE [pl EXCEPT !.ifacts[k] = r.row.ifacts, !.idist[k] = r.row.idist,
                      !.inames[k] = r.row.inames, !.err_var[k] = r.row.err_var,
                      !.solves = s, !.writes[k] = @ + 1]

WorkerWork(w) ==
  /\ wpc[w] = "work"
  /\ pool' = WriteSlots(pool, WorkerTarget(WorkerArgs, wjob[w][1], wjob[w][2], wjob[w][3]))
  /\ wpc' = [wpc EXCEPT ![w] = "check"]
  /\ wjob' = [wjob EXCEPT ![w] = <<0, 0, 0>>]
  /\ UNCHANGED kframe
  /\ UNCHANGED <<fvars, svars, ovars>>

\* df after the joins: x, y of the call and the four manager lists
PoolDf(targets, pl) ==
  Tab(LAMBDA i : [idx |-> i - 1, x |-> targets[i][1], y |-> targets[i][2], idist |-> pl.idist[i],
      inames |-> pl.inames[i], ifacts |-> pl.ifacts[i], err_var |-> pl.err_var[i]], Len(targets))

AllJoined == \A w \in Workers : wpc[w] \in {"done", "crashed"}

\* p.join() for every process, then the assembly of df and interp_data
MpJoin ==
  /\ caller.pc = "mp"
  /\ AllJoined
  /\ LET df == PoolDf(caller.targets, pool)
     IN  /\ interp_data' = StoreInterp(interp_data, df, caller.a.pt_zone)
         /\ IF caller.op = "factors"
            THEN /\ ret' = Returned("factors", caller.a, caller.targets, <<>>, df, pool.solves)
                 /\ hist' = Append(hist, HistEntry(caller.a, caller.targets, df))
                 /\ caller' = IdleCaller
            ELSE IF caller.zone_array = <<>>
            THEN /\ ret' = Returned("grid", caller.a, caller.targets, <<>>, df, pool.solves)
                 /\ caller' = IdleCaller
                 /\ UNCHANGED hist
            ELSE /\ caller' = [caller EXCEPT !.pc = "zones", !.dfs = caller.dfs \o df]
                 /\ UNCHANGED <<ret, hist>>
  /\ wpc' = [w \in Workers |-> "idle"]
  /\ wjob' = [w \in Workers |-> <<0, 0, 0>>]
  /\ UNCHANGED <<point_data, geostruct, point_cov_df, sort_kind, params, grid_called,
                 spatial_reference, pool, ncalls>>
  /\ UNCHANGED <<fvars, svars, ovars>>

\* ------------------------------------------------------------------------
\* calc_factors_grid
\* ------------------------------------------------------------------------
SomeReference == [none |-> FALSE, nrow |-> GridShape.nrow, ncol |-> GridShape.ncol]

\* zone_array is None, num_threads == 1
CalcFactorsGridSeq ==
  /\ caller.pc = "idle"
  /\ ncalls < MaxCalls
  /\ spatial_reference' = SomeReference
  /\ LET a == Args(params, NoZone, 1)
         r == CalcFactorsOrg(Engine, GridTargets, a)
     IN  IF r.raised
         THEN /\ interp_data' = NoneInterp
              /\ ret' = Raised("grid", a, GridTargets, <<>>, r.solves)
         ELSE /\ interp_data' = StoreInterp(NoneInterp, r.rows, NoZone)
              /\ ret' = Returned("grid", a, GridTargets, <<>>, r.rows, r.solves)
  /\ ncalls' = ncalls + 1
  /\ grid_called' = TRUE
  /\ UNCHANGED <<point_data, geostruct, point_cov_df, sort_kind, params,
                 caller, pool, wpc, wjob, hist>>
  /\ UNCHANGED <<fvars, svars, ovars>>

\* zone_array is None, num_threads > 1: the pool is started for the grid nodes
CalcFactorsGridMp ==
  /\ caller.pc = "idle"
  /\ ncalls < MaxCalls
  /\ spatial_reference' = SomeReference
  /\ interp_data' = NoneInterp
  /\ pool' = StartPool(GridTargets)
  /\ wpc' = [w \in Workers |-> "start"]
  /\ caller' = [IdleCaller EXCEPT !.pc = "mp", !.op = "grid",
                                  !.a = Args(params, NoZone, NumWorkers),
                                  !.targets = GridTargets]
  /\ ncalls' = ncalls + 1
  /\ grid_called' = TRUE
  /\ UNCHANGED <<point_data, geostruct, point_cov_df, sort_kind, params,
                 wjob, ret, hist>>
  /\ UNCHANGED <<fvars, svars, ovars>>

\* point_data.zone.unique(): the zones in order of first appearance
\* the zone column as it stands, repeated zones included
NotUnique(s, seen) == s

RECURSIVE Unique(_, _)
Unique(s, seen) ==
  IF s = <<>> THEN <<>>
  ELSE IF Head(s) \in seen THEN Unique(Tail(s), seen)
  ELSE <<Head(s)>> \o Unique(Tail(s), seen \cup {Head(s)})

\* point_data.loc[:, "zone"] = 1 when there is no zone column
WithZoneColumn(pd) ==
  IF pd.zonecol THEN pd
  ELSE [zonecol |-> TRUE, rows |-> Tab(LAMBDA k : [pd.rows[k] EXCEPT !.zone = 1], Len(pd.rows))]

\* zone_array is given: the zone column is made sure of and the loop over
\* the point zones begins
CalcFactorsGridZoned(zone_array, num_threads) ==
  /\ caller.pc = "idle"
  /\ ncalls < MaxCalls
  /\ spatial_reference' = SomeReference
  /\ interp_data' = NoneInterp
  /\ point_data' = WithZoneColumn(point_data)
  /\ caller' = [IdleCaller EXCEPT
                  !.pc = "zones", !.op = "grid",
                  !.a = Args(params, NoZone, num_threads),
                  !.targets = GridTargets, !.zone_array = zone_array,
                  !.warnings = IF point_data.zonecol THEN <<>> ELSE <<<<"generic zone", 1>>>>,
                  !.zones = Unique(Tab(LAMBDA k : point_data'.rows[k].zone, Len(point_data'.rows)), {})]
  /\ ncalls' = ncalls + 1
  /\ grid_called' = TRUE
  /\ UNCHANGED <<geostruct, point_cov_df, sort_kind, params, pool, wpc, wjob, ret, hist>>
  /\ UNCHANGED <<fvars, svars, ovars>>

\* every node kept in every pass
ZoneTargetsUnmasked(targets, zone_array, z) == targets

\* xzone, yzone: NaN wherever zone_array != pt_data_zone
ZoneTargets(targets, zone_array, z) ==
  Tab(LAMBDA i : IF zone_array[i] = z THEN targets[i] ELSE <<NanCoord, NanCoord>>, Len(targets))

InArray(z, zone_array) == \E i \in 1..Len(zone_array) : zone_array[i] = z

\* one pass of the loop over pt_data_zones
GridZonePass ==
  /\ caller.pc = "zones"
  /\ caller.zones # <<>>
  /\ LET z  == Head(caller.zones)
         a  == [caller.a EXCEPT !.pt_zone = z]
         tg == ZoneTargets(GridTargets, caller.zone_array, z)
     IN  IF ~InArray(z, caller.zone_array)
         THEN /\ caller' = [caller EXCEPT !.zones = Tail(caller.zones),
                                         !.warnings = Append(caller.warnings, <<"skipping", z>>)]
              /\ UNCHANGED <<interp_data, ret, pool, wpc>>
         ELSE IF caller.a.num_threads = 1
         THEN LET r == CalcFactorsOrg(Engine, tg, a)
              IN  IF r.raised
                  THEN /\ ret' = [Raised("grid", caller.a, caller.targets, caller.zone_array, r.solves)
                                    EXCEPT !.warnings = caller.warnings]
                       /\ caller' = IdleCaller
                       /\ UNCHANGED <<interp_data, pool, wpc>>
                  ELSE /\ interp_data' = StoreInterp(interp_data, r.rows, z)
                       /\ caller' = [caller EXCEPT !.zones = Tail(caller.zones),
                                                   !.dfs = caller.dfs \o r.rows]
                       /\ UNCHANGED <<ret, pool, wpc>>
         ELSE /\ pool' = StartPool(tg)
              /\ wpc' = [w \in Workers |-> "start"]
              /\ caller' = [caller EXCEPT !.pc = "mp", !.a = a, !.targets = tg,
                                          !.zones = Tail(caller.zones)]
              /\ UNCHANGED <<interp_data, ret>>
  /\ UNCHANGED <<point_data, geostruct, point_cov_df, sort_kind, params, grid_called,
                 spatial_reference, wjob, hist, ncalls>>
  /\ UNCHANGED <<fvars, svars, ovars>>

\* DataFrame.dropna(): the rows without a NaN
DropNa(rows) ==
  LET Full(r) == ~IsNanCoord(r.x) /\ ~IsNanCoord(r.y) /\ ~IsNaN(r.err_var)
  IN  SelectSeq(rows, Full)

\* after the loop: "no interpolation took place" or pd.concat(dfs)
GridZonesEnd ==
  /\ caller.pc = "zones"
  /\ caller.zones = <<>>
  /\ IF interp_data.none \/ DropNa(interp_data.rows) = <<>>
     THEN ret' = [Raised("grid", caller.a, GridTargets, caller.zone_array, {})
                    EXCEPT !.warnings = caller.warnings]
     ELSE ret' = [Returned("grid", caller.a, GridTargets, caller.zone_array, caller.dfs, {})
                    EXCEPT !.warnings = caller.warnings]
  /\ caller' = IdleCaller
  /\ UNCHANGED <<point_data, geostruct, point_cov_df, sort_kind, params, grid_called, interp_data,
                 spatial_reference, pool, wpc, wjob, hist, ncalls>>
  /\ UNCHANGED <<fvars, svars, ovars>>

KrigeNext ==
  \/ \E t \in TargetLists, z \in {NoZone, 1, 2} : CalcFactorsSeq(t, z)
  \/ \E t \in TargetLists, z \in {NoZone, 1, 2} : CalcFactorsMp(t, z)
  \/ \E w \in Workers : WorkerCrash(w)
  \/ \E w \in Workers : WorkerLen(w)
  \/ \E w \in Workers : WorkerPop(w)
  \/ \E w \in Workers : WorkerWork(w)
  \/ MpJoin
  \/ CalcFactorsGridSeq
  \/ CalcFactorsGridMp
  \/ \E za \in ZoneArrays, n \in {1, NumWorkers} : CalcFactorsGridZoned(za, n)
  \/ GridZonePass
  \/ GridZonesEnd


\* ------------------------------------------------------------------------
\* Numbers of the factors file and of the reconstructed array
\* ------------------------------------------------------------------------
RECURSIVE Pow10(_)
Pow10(k) == IF k = 0 THEN 1 ELSE 10 * Pow10(k - 1)

\* long division: q = floor(|w| * 10^k), r the remainder over d, carried on
\* until q has 8 digits or the expansion ends
RECURSIVE Expand8(_, _, _, _)
Expand8(q, r, d, k) ==
  IF q >= 10000000 \/ r = 0 THEN [q |-> q, r |-> r, k |-> k]
  ELSE Expand8(q * 10 + ((r * 10) \div d), (r * 10) % d, d, k + 1)

\* "{0:12.8g}".format(w) read back by float(): w rounded to 8 significant digits
Format8g(w) ==
  LET n == Abs(w[1])
      e == Expand8(n \div w[2], n % w[2], w[2], 0)
      m == IF 2 * e.r >= w[2] THEN e.q + 1 ELSE e.q
  IN  IF w[1] = 0 THEN R(0)
      ELSE Rat(IF w[1] < 0 THEN -m ELSE m, Pow10(e.k))

\* array values: a plain number v, or 10**v (the log transform), or -(10**v)
Lin(q) == [k |-> "lin", v |-> q]

Pow(q) == [k |-> "pow", v |-> q]

NegPow(q) == [k |-> "negpow", v |-> q]

IsPow10Int(q) == q[2] = 1 /\ \E j \in 0..9 : Pow10(j) = q[1]

Log10Int(q) == R(CHOOSE j \in 0..9 : Pow10(j) = q[1])

\* float comparison a < b on these values; plain numbers that are compared
\* with powers are zero, negative or integer powers of ten
NumLt(a, b) ==
  IF a.k = "negpow" THEN (b.k # "negpow" \/ RLt(b.v, a.v))
  ELSE IF b.k = "negpow" THEN FALSE
  ELSE IF a.k = "lin" /\ b.k = "lin" THEN RLt(a.v, b.v)
  ELSE IF a.k = "pow" /\ b.k = "pow" THEN RLt(a.v, b.v)
  ELSE IF a.k = "lin"
       THEN (a.v[1] <= 0 \/ (IF IsPow10Int(a.v) THEN RLt(Log10Int(a.v), b.v)
                             ELSE RLe(R(9), b.v)))
       ELSE (b.v[1] > 0 /\ IF IsPow10Int(b.v) THEN RLt(a.v, Log10Int(b.v))
                           ELSE RLt(a.v, R(0)))

\* ------------------------------------------------------------------------
\* to_grid_factors_file
\* ------------------------------------------------------------------------
NoFile == [exists |-> FALSE, ncol |-> 0, nrow |-> 0, pp_names |-> <<>>, lines |-> <<>>]

NoFac == [outcome |-> "none", arr |-> <<>>, pp_data |-> <<>>, lower_lim |-> Lin(R(0)),
          upper_lim |-> Lin(R(0)), fill_value |-> Lin(R(0)), diff |-> {}, header |-> <<>>]

\* pt_names.index(name): the first position of name, 0-based
ListIndex(names, name) == (CHOOSE i \in 1..Len(names) : names[i] = name /\ \A j \in 1..(i - 1) : names[j] # name) - 1

\* records written for every row, the rows without factors included
FactorLinesAll(rows, pt_names, t) ==
  Tab(LAMBDA i : [inode |-> rows[i].idx + 1, itrans |-> t, nfac |-> Len(rows[i].inames),
                  facs |-> Tab(LAMBDA k : <<ListIndex(pt_names, rows[i].inames[k]) + 1,
                                            Format8g(rows[i].ifacts[k])>>,
                               Len(rows[i].ifacts))],
      Len(rows))

\* the records written for the rows of interp_data that have factors
RECURSIVE FactorLines(_, _, _)
FactorLines(rows, pt_names, t) ==
  IF rows = <<>> THEN <<>>
  ELSE LET r == Head(rows)
       IN  IF Len(r.ifacts) = 0 THEN FactorLines(Tail(rows), pt_names, t)
           ELSE << [inode |-> r.idx + 1, itrans |-> t, nfac |-> Len(r.inames),
                    facs |-> Tab(LAMBDA k : <<ListIndex(pt_names, r.inames[k]) + 1,
                                              Format8g(r.ifacts[k])>>,
                                 IF Len(r.inames) < Len(r.ifacts)
                                 THEN Len(r.inames) ELSE Len(r.ifacts))] >>
                \o FactorLines(Tail(rows), pt_names, t)

WriteFactorsFile(ok, idata, sr) ==
  LET pt_names == Tab(LAMBDA k : ok.point_data.rows[k].name, Len(ok.point_data.rows))
  IN  [exists |-> TRUE, ncol |-> sr.ncol, nrow |-> sr.nrow, pp_names |-> pt_names,
       lines |-> FactorLines(idata.rows, pt_names,
                             IF ok.geostruct.transform = "log" THEN 1 ELSE 0)]

\* the same with only interp_data looked at
ToGridFactorsFileUnguarded ==
  /\ caller.pc = "idle"
  /\ ncalls < MaxCalls
  /\ IF interp_data.none
     THEN /\ ret' = Raised("tofile", NoArgs, <<>>, <<>>, {})
          /\ UNCHANGED factors_file
     ELSE /\ factors_file' = WriteFactorsFile(Engine, interp_data, spatial_reference)
          /\ ret' = Returned("tofile", NoArgs, <<>>, <<>>, <<>>, {})
  /\ ncalls' = ncalls + 1
  /\ UNCHANGED <<point_data, geostruct, point_cov_df, sort_kind, params, grid_called, interp_data,
                 spatial_reference, caller, pool, wpc, wjob, hist, fac, svars, ovars>>

ToGridFactorsFile ==
  /\ caller.pc = "idle"
  /\ ncalls < MaxCalls
  /\ IF interp_data.none \/ spatial_reference.none
     THEN /\ ret' = Raised("tofile", NoArgs, <<>>, <<>>, {})
          /\ UNCHANGED factors_file
     ELSE /\ factors_file' = WriteFactorsFile(Engine, interp_data, spatial_reference)
          /\ ret' = Returned("tofile", NoArgs, <<>>, <<>>, <<>>, {})
  /\ ncalls' = ncalls + 1
  /\ UNCHANGED <<point_data, geostruct, point_cov_df, sort_kind, params, grid_called, interp_data,
                 spatial_reference, caller, pool, wpc, wjob, hist, fac, svars, ovars>>

\* ------------------------------------------------------------------------
\* fac2real
\* ------------------------------------------------------------------------
\* np.log10 of a pilot point value (the values used are powers of ten)
Log10(v) == Log10Int(R(v))

\* pp_dict / pp_dict_log: keyed by the index label of pp_data (0, 1, ...)
PpDict(pp_data, key) == R(pp_data[key + 1].parval1)

PpDictLog(pp_data, key) == Log10(pp_data[key + 1].parval1)

\* _parse_factor_line: inode, itrans and (point number - 1, factor) pairs
ParseFactorLine(line) ==
  [inode |-> line.inode, itrans |-> line.itrans,
   fac_data |-> Tab(LAMBDA k : <<line.facs[k][1] - 1, line.facs[k][2]>>, line.nfac)]

\* fac_sum of one record
FacSum(pp_data, p) ==
  IF p.itrans = 0
  THEN Lin(RSum(Tab(LAMBDA k : RMul(PpDict(pp_data, p.fac_data[k][1]), p.fac_data[k][2]),
                    Len(p.fac_data))))
  ELSE Pow(RSum(Tab(LAMBDA k : RMul(PpDictLog(pp_data, p.fac_data[k][1]), p.fac_data[k][2]),
                    Len(p.fac_data))))

\* the loop over the records: arr[row - 1, col - 1] = fac_sum, arr kept row-major
RECURSIVE FillArr(_, _, _, _)
FillArr(arr, lines, pp_data, ncol) ==
  IF lines = <<>> THEN arr
  ELSE LET p   == ParseFactorLine(Head(lines))
           row == ((p.inode - 1) \div ncol) + 1
           col == p.inode - ((row - 1) * ncol)
       IN  FillArr([arr EXCEPT ![(row - 1) * ncol + col] = FacSum(pp_data, p)],
                   Tail(lines), pp_data, ncol)

\* arr[arr < lower_lim] = lower_lim; arr[arr > upper_lim] = upper_lim
Clip(arr, lower_lim, upper_lim) ==
  LET lo == Tab(LAMBDA i : IF NumLt(arr[i], lower_lim) THEN lower_lim ELSE arr[i], Len(arr))
  IN  Tab(LAMBDA i : IF NumLt(upper_lim, lo[i]) THEN upper_lim ELSE lo[i], Len(lo))

NameSet(s) == {s[i] : i \in 1..Len(s)}

\* str.lower() on the point names in use
Lower(name) ==
  IF name = "P1" THEN "p1" ELSE IF name = "P2" THEN "p2" ELSE IF name = "P3" THEN "p3" ELSE name

\* pp_names as read from the header: f_fac.readline().strip().lower()
HeaderNames(file) == Tab(LAMBDA k : Lower(file.pp_names[k]), Len(file.pp_names))

\* the names of the source that are missing from the header, and no others
NamesMissingFromHeader(a, b) == a \ b

\* set(a).symmetric_difference(set(b))
SymmetricDifference(a, b) == (a \ b) \cup (b \ a)

\* fac2real with out_file None: raised on a name mismatch, else the array
Fac2RealArr(file, pp_data, lower_lim, upper_lim, fill_value) ==
  LET diff == SymmetricDifference(NameSet(Tab(LAMBDA k : pp_data[k].name, Len(pp_data))),
                                  NameSet(HeaderNames(file)))
  IN
  IF diff # {}
  THEN [raised |-> TRUE, arr |-> <<>>, diff |-> diff]
  ELSE [raised |-> FALSE, diff |-> {},
        arr |-> Clip(FillArr(Tab(LAMBDA i : fill_value, file.nrow * file.ncol),
                             file.lines, pp_data, file.ncol),
                     lower_lim, upper_lim)]

\* pilot point tables handed to fac2real: name and parval1, in row order
PpTables ==
  { << [name |-> "p1", parval1 |-> 1], [name |-> "p2", parval1 |-> 10],
       [name |-> "p3", parval1 |-> 1] >>,
    << [name |-> "p2", parval1 |-> 10], [name |-> "p1", parval1 |-> 1],
       [name |-> "p3", parval1 |-> 1] >>,
    << [name |-> "p1", parval1 |-> 1], [name |-> "p2", parval1 |-> 10],
       [name |-> "p4", parval1 |-> 1] >> }

\* lower_lim, upper_lim and fill_value; the defaults are -1e30, 1e30 and 1e30
LowerLims == {NegPow(R(30)), Lin(R(1))}

UpperLims == {Pow(R(30)), Lin(R(1))}

FillValues == {Pow(R(30)), Lin(R(-1))}

Fac2Real(pp_data, lower_lim, upper_lim, fill_value) ==
  /\ caller.pc = "idle"
  /\ factors_file.exists
  /\ LET r == Fac2RealArr(factors_file, pp_data, lower_lim, upper_lim, fill_value)
     IN  fac' = [outcome |-> IF r.raised THEN "raised" ELSE "returned", arr |-> r.arr,
                 pp_data |-> pp_data, lower_lim |-> lower_lim, upper_lim |-> upper_lim,
                 fill_value |-> fill_value, diff |-> r.diff, header |-> factors_file.pp_names]
  /\ UNCHANGED <<kvars, factors_file, svars, ovars>>

\* factors files of another producer: header only, names as that producer wrote them
ForeignFiles ==
  { [exists |-> TRUE, ncol |-> 2, nrow |-> 2, pp_names |-> n, lines |-> <<>>] :
      n \in { <<"p1", "p2", "p3">>, <<"P1", "p2", "p3">>, <<"p1", "p2">>,
              <<"p3", "p1", "p2", "p4">>, <<"P3", "P2", "P1">> } }

\* pilot point tables handed to fac2real as a DataFrame, names as the caller has them
ForeignPpTables ==
  PpTables \cup
  { << [name |-> "P1", parval1 |-> 1], [name |-> "p2", parval1 |-> 10],
       [name |-> "p3", parval1 |-> 1] >>,
    << [name |-> "p1", parval1 |-> 1], [name |-> "p2", parval1 |-> 10] >> }

\* a factors file written by another program replaces the one on disk
PutFactorsFile(file) ==
  /\ caller.pc = "idle"
  /\ factors_file' = file
  /\ UNCHANGED <<kvars, fac, svars, ovars>>

HeaderNext ==
  \/ \E f \in ForeignFiles : PutFactorsFile(f)
  \/ \E pp \in ForeignPpTables, lo \in LowerLims, up \in UpperLims, fv \in FillValues :
       Fac2Real(pp, lo, up, fv)

\* ------------------------------------------------------------------------
\* SpecSim2d: initialize, draw_arrays, grid_par_ensemble_helper
\* ------------------------------------------------------------------------
\* the kernel (sqrt_fftc) is a function of the structure it was computed from
KernelOf(st) == [nugget |-> st.nugget, contribution |-> st.contribution, bearing |-> st.bearing]

\* grid_is_regular's tol (1.0e-6): cell sizes are integers in units of tol
Tol == 1

RECURSIVE SeqSum(_)
SeqSum(d) == IF d = <<>> THEN 0 ELSE Head(d) + SeqSum(Tail(d))

\* ndarray.mean() and ndarray.min()
Mean(d) == Rat(SeqSum(d), Len(d))

Min(d) == CHOOSE m \in {d[k] : k \in 1..Len(d)} : \A k \in 1..Len(d) : m <= d[k]

AbsDiff(p, q) == IF RLt(p, q) THEN RSub(q, p) ELSE RSub(p, q)

\* SpecSim2d.grid_is_regular
GridIsRegular(delx, dely) ==
  IF RLt(R(Tol), AbsDiff(Mean(delx), R(Min(delx)))) THEN FALSE
  ELSE IF RLt(R(Tol), AbsDiff(Mean(dely), R(Min(dely)))) THEN FALSE
  ELSE IF RLt(R(Tol), AbsDiff(Mean(delx), Mean(dely))) THEN FALSE
  ELSE TRUE

\* initialize(): raises on a grid that is not regular and on a bearing that
\* is not grid-aligned, before the kernel is computed
InitializeSim(st) ==
  IF ~GridIsRegular(st.delx, st.dely) THEN [raised |-> TRUE, st |-> st]
  ELSE IF st.bearing % 90 # 0 THEN [raised |-> TRUE, st |-> st]
  ELSE [raised |-> FALSE, st |-> [st EXCEPT !.kernel = KernelOf(st)]]

SimGrid == [nrow |-> 2, ncol |-> 2]

NoSret == [op |-> "none", outcome |-> "none", names |-> <<>>,
           org_nug |-> R(0), org_var |-> R(0), delx |-> <<>>, dely |-> <<>>, bearing |-> 0]

RECURSIVE UniqueSeq(_, _)
UniqueSeq(s, seen) ==
  IF s = <<>> THEN <<>>
  ELSE IF Head(s) \in seen THEN UniqueSeq(Tail(s), seen)
  ELSE <<Head(s)>> \o UniqueSeq(Tail(s), seen \cup {Head(s)})

RECURSIVE SelectRows(_, _)
SelectRows(rows, grp) ==
  IF rows = <<>> THEN <<>>
  ELSE IF Head(rows).pargp = grp THEN <<Head(rows)>> \o SelectRows(Tail(rows), grp)
  ELSE SelectRows(Tail(rows), grp)

SetMax(S) == CHOOSE m \in S : \A x \in S : x <= m

SetMin(S) == CHOOSE m \in S : \A x \in S : m <= x

\* the body of the loop over the groups, from the group gr_grps[1] on
\* draw_arrays inside the loop: the simulator as the draw found it, ahead of
\* the draws of the groups that follow
AfterDraw(st, rest) == [rest EXCEPT !.draws = <<st>> \o @]

RECURSIVE HelperLoop(_, _, _, _, _, _, _)
HelperLoop(st, gr_grps, gr_df, pst, sigma_range, scaled, names) ==
  IF gr_grps = <<>> THEN [raised |-> FALSE, st |-> st, names |-> names, draws |-> <<>>]
  ELSE
    LET gp_df == SelectRows(gr_df.rows, Head(gr_grps))
        known == \A k \in 1..Len(gp_df) : gp_df[k].parnme \in DOMAIN pst
        inside == \A k \in 1..Len(gp_df) :
                     /\ gp_df[k].i < SimGrid.nrow /\ gp_df[k].i >= -SimGrid.nrow
                     /\ gp_df[k].j < SimGrid.ncol /\ gp_df[k].j >= -SimGrid.ncol
    IN  IF ~known \/ ~inside THEN [raised |-> TRUE, st |-> st, names |-> names, draws |-> <<>>]
        ELSE
          LET mx_ubnd == SetMax({pst[gp_df[k].parnme].parubnd_trans : k \in 1..Len(gp_df)})
              mn_lbnd == SetMin({pst[gp_df[k].parnme].parlbnd_trans : k \in 1..Len(gp_df)})
              sd  == RDiv(R(mx_ubnd - mn_lbnd), R(sigma_range))
              var == RMul(sd, sd)
              upd == [st EXCEPT !.contribution = RMul(var, scaled.new_var),
                                !.nugget = RMul(var, scaled.new_nug)]
              ini == InitializeSim(upd)
          IN  IF ini.raised THEN [raised |-> TRUE, st |-> upd, names |-> names, draws |-> <<>>]
              ELSE AfterDraw(ini.st,
                             HelperLoop(ini.st, Tail(gr_grps), gr_df, pst, sigma_range, scaled,
                                        names \o Tab(LAMBDA k : gp_df[k].parnme, Len(gp_df))))

\* the reset to org conditions without the call of initialize()
NoReinitialize(st) == [raised |-> FALSE, st |-> st]

\* self.initialize() after the reset to org conditions
Reinitialize(st) == InitializeSim(st)

\* grid_par_ensemble_helper: the structure it leaves behind, its outcome, and
\* the simulator as each draw_arrays call of the loop found it
HelperRun(st, pst, gr_df, sigma_range) ==
  IF ~gr_df.has_i \/ ~gr_df.has_j THEN [raised |-> TRUE, st |-> st, names |-> <<>>, draws |-> <<>>]
  ELSE
    LET org_var == st.contribution
        org_nug == st.nugget
        tot     == RAdd(org_var, org_nug)
        rescale == tot # R(1)
        scaled  == [new_var |-> IF rescale THEN RDiv(org_var, tot) ELSE org_var,
                    new_nug |-> IF rescale THEN RDiv(org_nug, tot) ELSE org_nug]
        st1     == IF rescale THEN [st EXCEPT !.contribution = scaled.new_var,
                                              !.nugget = scaled.new_nug]
                   ELSE st
        gr_grps == UniqueSeq(Tab(LAMBDA k : gr_df.rows[k].pargp, Len(gr_df.rows)), {})
        lp      == HelperLoop(st1, gr_grps, gr_df, pst, sigma_range, scaled, <<>>)
    IN  IF lp.raised THEN lp
        ELSE IF gr_grps = <<>> THEN [raised |-> TRUE, st |-> lp.st, names |-> <<>>, draws |-> <<>>]
        ELSE LET back == [lp.st EXCEPT !.nugget = org_nug, !.contribution = org_var]
                 ini  == Reinitialize(back)
             IN  [raised |-> ini.raised, st |-> ini.st, names |-> lp.names, draws |-> lp.draws]

\* control files: parameter name -> transformed bounds
Psts ==
  { [n \in {"a", "b"} |-> [parlbnd_trans |-> 0, parubnd_trans |-> IF n = "a" THEN 6 ELSE 12]],
    [n \in {"a"} |-> [parlbnd_trans |-> 0, parubnd_trans |-> 6]] }

\* grid parameter tables: parnme, pargp, i, j
GrDfs ==
  { [has_i |-> FALSE, has_j |-> TRUE,
     rows |-> << [parnme |-> "a", pargp |-> "g1", i |-> 0, j |-> 0] >>],
    [has_i |-> TRUE, has_j |-> TRUE, rows |-> <<>>],
    [has_i |-> TRUE, has_j |-> TRUE,
     rows |-> << [parnme |-> "a", pargp |-> "g1", i |-> 0, j |-> 0] >>],
    [has_i |-> TRUE, has_j |-> TRUE,
     rows |-> << [parnme |-> "a", pargp |-> "g1", i |-> 0, j |-> 0],
                 [parnme |-> "b", pargp |-> "g2", i |-> 0, j |-> 1] >>],
    [has_i |-> TRUE, has_j |-> TRUE,
     rows |-> << [parnme |-> "a", pargp |-> "g1", i |-> 0, j |-> 0],
                 [parnme |-> "b", pargp |-> "g2", i |-> 5, j |-> 0] >>] }

SigmaRanges == {6}

SimNuggets == {R(0), R(1)}

SimContributions == {R(1), R(3)}

Bearings == {0, 45, 90}

GridParEnsembleHelper(pst, gr_df, sigma_range) ==
  /\ LET r == HelperRun(sim, pst, gr_df, sigma_range)
     IN  /\ sim' = r.st
         /\ sret' = [op |-> "helper", outcome |-> IF r.raised THEN "raised" ELSE "returned",
                     names |-> r.names, org_nug |-> sim.nugget, org_var |-> sim.contribution,
                     draws |-> r.draws]
  /\ UNCHANGED <<kvars, fvars, ovars>>

Initialize ==
  /\ LET r == InitializeSim(sim)
     IN  /\ sim' = r.st
         /\ sret' = [NoSret EXCEPT !.op = "initialize",
                                   !.outcome = IF r.raised THEN "raised" ELSE "returned"]
  /\ UNCHANGED <<kvars, fvars, ovars>>

\* draw_arrays: realizations of the kernel as it stands; the structure is only read
DrawArrays ==
  /\ sret' = [NoSret EXCEPT !.op = "draw", !.outcome = "returned"]
  /\ UNCHANGED <<kvars, fvars, sim, ovars>>

\* the caller edits the bearing of the structure's variogram
SetBearing(b) ==
  /\ sim' = [sim EXCEPT !.bearing = b]
  /\ sret' = NoSret
  /\ UNCHANGED <<kvars, fvars, ovars>>

\* cell sizes of a regular grid
RegularDel == <<10, 10, 10>>

\* delx and dely vectors handed to the constructor
DelArrays == { <<10, 10, 10>>, <<10, 10, 13>>, <<10, 12, 20>>, <<12, 12, 12>> }

\* SpecSim2d(delx, dely, geostruct): the new object replaces the one held,
\* unless initialize() raises
NewSim(delx, dely, n, c, b) ==
  /\ LET r == InitializeSim([nugget |-> n, contribution |-> c, bearing |-> b,
                             delx |-> delx, dely |-> dely,
                             kernel |-> [nugget |-> R(0), contribution |-> R(0), bearing |-> 0]])
     IN  /\ sim' = IF r.raised THEN sim ELSE r.st
         /\ sret' = [NoSret EXCEPT !.op = "new",
                                   !.outcome = IF r.raised THEN "raised" ELSE "returned",
                                   !.delx = delx, !.dely = dely, !.bearing = b]
  /\ UNCHANGED <<kvars, fvars, ovars>>

\* the state after SpecSim2d.__init__, which calls initialize()
SimInit ==
  /\ \E n \in SimNuggets, c \in SimContributions, b \in {x \in Bearings : x % 90 = 0} :
       sim = [nugget |-> n, contribution |-> c, bearing |-> b,
              delx |-> RegularDel, dely |-> RegularDel,
              kernel |-> [nugget |-> n, contribution |-> c, bearing |-> b]]
  /\ sret = NoSret

SimNext ==
  \/ \E pst \in Psts, g \in GrDfs, s \in SigmaRanges : GridParEnsembleHelper(pst, g, s)
  \/ Initialize
  \/ DrawArrays
  \/ \E b \in Bearings : SetBearing(b)

\* objects constructed over regular and irregular grids, and re-initialized
NewSimNext ==
  \/ \E dx \in DelArrays, dy \in DelArrays, n \in SimNuggets, b \in Bearings :
       NewSim(dx, dy, n, R(1), b)
  \/ Initialize
  \/ DrawArrays
  \/ \E b \in Bearings : SetBearing(b)

\* ------------------------------------------------------------------------
\* check_point_data_dist
\* ------------------------------------------------------------------------
SqDist(p, q) == (p.x - q.x) * (p.x - q.x) + (p.y - q.y) * (p.y - q.y)

\* the names collected in drop: points within EPSILON of an earlier point
\* (coordinates are integers, so a squared distance is below EPSILON**2 iff it is 0)
DropNames(rows) ==
  {rows[j].name : j \in {j \in 1..Len(rows) : \E i \in 1..(j - 1) : SqDist(rows[i], rows[j]) = 0}}

RECURSIVE KeepRows(_, _)
KeepRows(rows, drop) ==
  IF rows = <<>> THEN <<>>
  ELSE IF Head(rows).name \in drop THEN KeepRows(Tail(rows), drop)
  ELSE <<Head(rows)>> \o KeepRows(Tail(rows), drop)

CheckPointDataDist(rectify) ==
  /\ caller.pc = "idle"
  /\ point_data' = IF rectify /\ DropNames(point_data.rows) # {}
                   THEN [point_data EXCEPT !.rows = KeepRows(point_data.rows, DropNames(point_data.rows))]
                   ELSE point_data
  /\ ret' = Returned("check_dist", NoArgs, <<>>, <<>>, <<>>, {})
  /\ UNCHANGED <<geostruct, point_cov_df, sort_kind, params, grid_called, interp_data,
                 spatial_reference, caller, pool, wpc, wjob, hist, ncalls, fvars, svars, ovars>>

\* ------------------------------------------------------------------------
\* GeoStruct.covariance over nested structures of the three variogram types
\* ------------------------------------------------------------------------
\* A covariance value: rat + the sum of coef * exp(expo) over exps, expo # 0
\* (np.exp(0) is exactly 1 and is folded into rat).
Real(q) == [rat |-> q, exps |-> <<>>]

ExpTerm(coef, expo) ==
  IF expo = R(0) THEN Real(coef) ELSE [rat |-> R(0), exps |-> <<<<coef, expo>>>>]

RealAdd(a, b) == [rat |-> RAdd(a.rat, b.rat), exps |-> a.exps \o b.exps]

\* ExpVario._h_function
ExpHFunction(v, h) == ExpTerm(R(v.contribution), RNeg(Rat(h, v.a)))

\* GauVario._h_function
GauHFunction(v, h) == ExpTerm(R(v.contribution), RNeg(Rat(h * h, v.a * v.a)))

\* the _h_function of the variogram's class (vartype 1, 2, 3)
HFunction(v, h) ==
  IF v.vartype = 2 THEN ExpHFunction(v, h)
  ELSE IF v.vartype = 3 THEN GauHFunction(v, h)
  ELSE Real(SphHFunction(v, h))

\* Vario2d.covariance_matrix(x, y, names=names).x for the points pts
VarioCovMatrix(v, pts) ==
  Tab(LAMBDA i : Tab(LAMBDA j :
        IF i = j THEN Real(R(v.contribution))
        ELSE LET a == IF i < j THEN i ELSE j
                 b == IF i < j THEN j ELSE i
                 d == ApplyRotation(v, pts[a][1] - pts[b][1], pts[a][2] - pts[b][2])
             IN  HFunction(v, Sqrt(d[1] * d[1] + d[2] * d[2])), Len(pts)), Len(pts))

\* Vario2d.covariance: entry [0, 1] of the matrix of the two points
VarioCovariance(v, pt0, pt1) == VarioCovMatrix(v, <<pt0, pt1>>)[1][2]

RECURSIVE RealSum(_)
RealSum(s) == IF s = <<>> THEN Real(R(0)) ELSE RealAdd(Head(s), RealSum(Tail(s)))

\* the variograms' part alone
GsCovarianceNoNugget(gs, pt0, pt1) ==
  RealSum(Tab(LAMBDA m : VarioCovariance(gs.variograms[m], pt0, pt1), Len(gs.variograms)))

\* GeoStruct.covariance
GsCovariance(gs, pt0, pt1) ==
  RealAdd(Real(gs.nugget),
          RealSum(Tab(LAMBDA m : VarioCovariance(gs.variograms[m], pt0, pt1),
                      Len(gs.variograms))))

\* variograms of the three classes, isotropic and anisotropic
CovVarios ==
  { [vartype |-> 1, contribution |-> 1, a |-> 10, anisotropy |-> 1, bearing |-> 0],
    [vartype |-> 2, contribution |-> 2, a |-> 10, anisotropy |-> 2, bearing |-> 0],
    [vartype |-> 3, contribution |-> 1, a |-> 5, anisotropy |-> 1, bearing |-> 90],
    [vartype |-> 1, contribution |-> 3, a |-> 4, anisotropy |-> 2, bearing |-> 90] }

MaxVarios == 2

CovVarioLists == UNION { [1..n -> CovVarios] : n \in 0..MaxVarios }

CovStructs ==
  { [nugget |-> R(n), variograms |-> vs, transform |-> "none"] :
      n \in {0, 2}, vs \in CovVarioLists }

CovLocations == { <<0, 0>>, <<3, 4>>, <<6, 4>>, <<6, 8>> }

\* pairs of points: a point with itself, or two points of one grid line
CovPairs ==
  { pq \in CovLocations \X CovLocations :
      pq[1] = pq[2] \/ pq[1][1] = pq[2][1] \/ pq[1][2] = pq[2][2] }

NoCov == [op |-> "none", gs |-> [nugget |-> R(0), variograms |-> <<>>, transform |-> "none"],
          pt0 |-> <<0, 0>>, pt1 |-> <<0, 0>>, cov |-> Real(R(0))]


Covariance(gs, pt0, pt1) ==
  /\ gcov' = [op |-> "covariance", gs |-> gs, pt0 |-> pt0, pt1 |-> pt1,
              cov |-> GsCovariance(gs, pt0, pt1)]
  /\ UNCHANGED <<kvars, fvars, svars, ctor, sfile, kern>>

CovNext == \E gs \in CovStructs, pq \in CovPairs : Covariance(gs, pq[1], pq[2])

\* ------------------------------------------------------------------------
\* OrdinaryKrige.__init__ on point tables with repeated names
\* ------------------------------------------------------------------------
NameList(rows) == Tab(LAMBDA k : rows[k].name, Len(rows))

\* point_data.groupby(point_data.name).std()[col].max() > 0.0: some name has
\* rows that differ in the column (a single row gives NaN, which max skips)
GroupStdPositive(rows, col) ==
  \E i, j \in 1..Len(rows) :
    /\ rows[i].name = rows[j].name
    /\ IF col = "x" THEN rows[i].x # rows[j].x ELSE rows[i].y # rows[j].y

\* point_data.drop_duplicates(subset=["name"]): the first row of each name
DropDuplicates(rows) ==
  SelectSeq(Tab(LAMBDA k : [row |-> rows[k],
                            first |-> \A i \in 1..(k - 1) : rows[i].name # rows[k].name],
                Len(rows)), LAMBDA e : e.first)

Rows(entries) == Tab(LAMBDA k : entries[k].row, Len(entries))

\* the warnings of check_point_data_dist() as the constructor calls it
DistWarnings(rows) == IF DropNames(rows) # {} THEN <<"too close">> ELSE <<>>

NoCtor == [op |-> "none", outcome |-> "none", error |-> "none", warnings |-> <<>>,
           input |-> <<>>]

\* point tables handed to the constructor
CtorTables ==
  { << [name |-> "p1", x |-> 0, y |-> 0, zone |-> NoZone],
       [name |-> "p2", x |-> 3, y |-> 4, zone |-> NoZone],
       [name |-> "p3", x |-> 6, y |-> 8, zone |-> NoZone] >>,
    << [name |-> "p1", x |-> 3, y |-> 4, zone |-> NoZone],
       [name |-> "p1", x |-> 3, y |-> 4, zone |-> NoZone],
       [name |-> "p3", x |-> 6, y |-> 0, zone |-> NoZone] >>,
    << [name |-> "p1", x |-> 3, y |-> 4, zone |-> NoZone],
       [name |-> "p1", x |-> 6, y |-> 4, zone |-> NoZone],
       [name |-> "p3", x |-> 6, y |-> 0, zone |-> NoZone] >>,
    << [name |-> "p1", x |-> 3, y |-> 4, zone |-> NoZone],
       [name |-> "p2", x |-> 6, y |-> 0, zone |-> NoZone],
       [name |-> "p2", x |-> 6, y |-> 8, zone |-> NoZone] >>,
    << [name |-> "p1", x |-> 0, y |-> 0, zone |-> NoZone],
       [name |-> "p2", x |-> 3, y |-> 4, zone |-> NoZone],
       [name |-> "p1", x |-> 0, y |-> 0, zone |-> NoZone],
       [name |-> "p2", x |-> 3, y |-> 4, zone |-> NoZone] >>,
    << [name |-> "p1", x |-> 3, y |-> 4, zone |-> NoZone],
       [name |-> "p2", x |-> 3, y |-> 4, zone |-> NoZone],
       [name |-> "p3", x |-> 6, y |-> 0, zone |-> NoZone] >>,
    << [name |-> "p1", x |-> 6, y |-> 8, zone |-> NoZone],
       [name |-> "p1", x |-> 6, y |-> 8, zone |-> NoZone],
       [name |-> "p1", x |-> 6, y |-> 8, zone |-> NoZone] >> }

\* OrdinaryKrige(geostruct, point_data): a new engine replaces the one held,
\* unless the constructor raises
Construct(gs, rows) ==
  /\ caller.pc = "idle"
  /\ LET dup   == Cardinality({rows[k].name : k \in 1..Len(rows)}) # Len(rows)
         warn  == IF dup THEN <<"duplicates detected">> ELSE <<>>
         kept  == IF dup THEN Rows(DropDuplicates(rows)) ELSE rows
     IN  IF dup /\ (GroupStdPositive(rows, "x") \/ GroupStdPositive(rows, "y"))
         THEN \* the message is formatted with the undefined name uname
              /\ ctor' = [op |-> "init", outcome |-> "raised", error |-> "NameError",
                          warnings |-> warn, input |-> rows]
              /\ UNCHANGED kvars
         ELSE /\ ctor' = [op |-> "init", outcome |-> "returned", error |-> "none",
                          warnings |-> warn \o DistWarnings(kept), input |-> rows]
              /\ point_data' = [zonecol |-> FALSE, rows |-> kept]
              /\ geostruct' = gs
              /\ point_cov_df' = GsCovMatrix(gs, kept)
              /\ interp_data' = NoneInterp
              /\ spatial_reference' = [none |-> TRUE, nrow |-> 0, ncol |-> 0]
              /\ ret' = NoRet
              /\ hist' = <<>>
              /\ ncalls' = 0
              /\ grid_called' = FALSE
              /\ UNCHANGED <<sort_kind, params, caller, pool, wpc, wjob>>
  /\ UNCHANGED <<fvars, svars, gcov, sfile, kern>>

CtorNext ==
  \/ \E gs \in GeoStructs, rows \in CtorTables : Construct(gs, rows)
  \/ \E t \in TargetLists : CalcFactorsSeq(t, NoZone)


\* ------------------------------------------------------------------------
\* read_struct_file
\* ------------------------------------------------------------------------
\* A file is its lines; a line is its first token kw (lower case), the name
\* arg that may follow it and the number num that may follow that.
Line(kw, arg, num) == [kw |-> kw, arg |-> arg, num |-> num]

\* a local that has not been assigned
Unset == -1

Fail(error, keyword) == [raised |-> TRUE, error |-> error, keyword |-> keyword]

\* a reader of the VARIOGRAM block that passes over an unknown keyword
RECURSIVE ReadVariogramLenient(_, _, _)
ReadVariogramLenient(lines, pos, v) ==
  IF pos > Len(lines) THEN Fail("Exception: EOF", "")
  ELSE LET l == lines[pos]
       IN  IF l.kw = "vartype" THEN ReadVariogramLenient(lines, pos + 1, [v EXCEPT !.vartype = l.num])
           ELSE IF l.kw = "bearing" THEN ReadVariogramLenient(lines, pos + 1, [v EXCEPT !.bearing = l.num])
           ELSE IF l.kw = "a" THEN ReadVariogramLenient(lines, pos + 1, [v EXCEPT !.a = l.num])
           ELSE IF l.kw = "anisotropy" THEN ReadVariogramLenient(lines, pos + 1, [v EXCEPT !.anisotropy = l.num])
           ELSE IF l.kw = "end" THEN [raised |-> FALSE, pos |-> pos + 1, v |-> v]
           ELSE ReadVariogramLenient(lines, pos + 1, v)

\* _read_variogram from line pos on; v holds vartype, bearing, a, anisotropy
RECURSIVE ReadVariogram(_, _, _)
ReadVariogram(lines, pos, v) ==
  IF pos > Len(lines) THEN Fail("Exception: EOF", "")
  ELSE LET l == lines[pos]
       IN  IF l.kw = "#" THEN ReadVariogram(lines, pos + 1, v)
           ELSE IF l.kw = "vartype" THEN ReadVariogram(lines, pos + 1, [v EXCEPT !.vartype = l.num])
           ELSE IF l.kw = "bearing" THEN ReadVariogram(lines, pos + 1, [v EXCEPT !.bearing = l.num])
           ELSE IF l.kw = "a" THEN ReadVariogram(lines, pos + 1, [v EXCEPT !.a = l.num])
           ELSE IF l.kw = "anisotropy" THEN ReadVariogram(lines, pos + 1, [v EXCEPT !.anisotropy = l.num])
           ELSE IF l.kw = "end" THEN [raised |-> FALSE, pos |-> pos + 1, v |-> v]
           ELSE Fail("Exception: unrecognized", l.kw)

\* variogram_info[name] = contribution
DictSet(d, name, val) ==
  IF \E k \in 1..Len(d) : d[k].name = name
  THEN Tab(LAMBDA k : IF d[k].name = name THEN [name |-> name, val |-> val] ELSE d[k], Len(d))
  ELSE Append(d, [name |-> name, val |-> val])

\* _read_structure_attributes from line pos on
RECURSIVE ReadStructureAttributes(_, _, _)
ReadStructureAttributes(lines, pos, s) ==
  IF pos > Len(lines) THEN Fail("Exception: EOF", "")
  ELSE LET l == lines[pos]
       IN  IF l.kw = "#" THEN ReadStructureAttributes(lines, pos + 1, s)
           ELSE IF l.kw = "nugget"
           THEN ReadStructureAttributes(lines, pos + 1, [s EXCEPT !.nugget = l.num])
           ELSE IF l.kw = "transform"
           THEN ReadStructureAttributes(lines, pos + 1, [s EXCEPT !.transform = l.arg])
           ELSE IF l.kw = "numvariogram"
           THEN ReadStructureAttributes(lines, pos + 1, [s EXCEPT !.numvariograms = l.num])
           ELSE IF l.kw = "variogram"
           THEN ReadStructureAttributes(lines, pos + 1,
                  [s EXCEPT !.variogram_info = DictSet(s.variogram_info, l.arg, l.num)])
           ELSE IF l.kw = "end"
           THEN IF s.numvariograms = Unset THEN Fail("UnboundLocalError", "")
                ELSE IF s.numvariograms # Len(s.variogram_info) THEN Fail("AssertionError", "")
                ELSE IF s.nugget = Unset \/ s.transform = "" THEN Fail("UnboundLocalError", "")
                ELSE [raised |-> FALSE, pos |-> pos + 1, s |-> s]
           ELSE IF l.kw = "mean"
           THEN ReadStructureAttributes(lines, pos + 1,
                  [s EXCEPT !.warnings = Append(s.warnings, "mean")])
           ELSE Fail("Exception: unrecognized", l.kw)

NewVario == [vartype |-> Unset, bearing |-> 0, a |-> Unset, anisotropy |-> 1]

NewAttrs == [nugget |-> Unset, transform |-> "", numvariograms |-> Unset,
             variogram_info |-> <<>>, warnings |-> <<>>]

\* the second loop of read_struct_file: every name of a structure's
\* variogram_info must be the name of a variogram that was read
AttachVariograms(structures, variograms) ==
  IF \E i \in 1..Len(structures) : \E k \in 1..Len(structures[i].variogram_info) :
       \A m \in 1..Len(variograms) : variograms[m].name # structures[i].variogram_info[k].name
  THEN Fail("Exception: variogram not found", "")
  ELSE [raised |-> FALSE,
        structures |->
          Tab(LAMBDA i : [structures[i] EXCEPT !.variograms =
                Tab(LAMBDA k : variograms[CHOOSE m \in 1..Len(variograms) :
                                  /\ variograms[m].name = structures[i].variogram_info[k].name
                                  /\ \A n \in 1..(m - 1) :
                                       variograms[n].name # structures[i].variogram_info[k].name],
                    Len(structures[i].variogram_info))], Len(structures))]

\* one variogram block: read, and kept when the last structure names it
TopVariogram(lines, pos, variograms, info, info_set) ==
  LET r == ReadVariogram(lines, pos + 1, NewVario)
  IN  IF r.raised THEN r
      ELSE IF ~info_set THEN Fail("UnboundLocalError", "")
      ELSE IF \A k \in 1..Len(info) : info[k].name # lines[pos].arg
      THEN [raised |-> FALSE, pos |-> r.pos, variograms |-> variograms]
      ELSE IF r.v.vartype \notin {1, 2, 3, 4} THEN Fail("KeyError", "")
      ELSE IF r.v.vartype = 4 \/ r.v.a = Unset THEN Fail("TypeError", "")
      ELSE IF r.v.a <= 0 \/ r.v.anisotropy <= 0 THEN Fail("AssertionError", "")
      ELSE [raised |-> FALSE, pos |-> r.pos,
            variograms |-> Append(variograms,
              [name |-> lines[pos].arg, vartype |-> r.v.vartype, a |-> r.v.a,
               contribution |-> info[CHOOSE k \in 1..Len(info) : info[k].name = lines[pos].arg].val,
               anisotropy |-> r.v.anisotropy, bearing |-> r.v.bearing])]

\* the first loop of read_struct_file, from line pos on
RECURSIVE TopLoop(_, _, _, _, _, _)
TopLoop(lines, pos, structures, variograms, info, info_set) ==
  IF pos > Len(lines) THEN AttachVariograms(structures, variograms)
  ELSE IF lines[pos].kw = "structure"
  THEN LET r == ReadStructureAttributes(lines, pos + 1, NewAttrs)
       IN  IF r.raised THEN r
           ELSE TopLoop(lines, r.pos,
                        Append(structures,
                               [name |-> lines[pos].arg, nugget |-> r.s.nugget,
                                transform |-> r.s.transform,
                                variogram_info |-> r.s.variogram_info, variograms |-> <<>>]),
                        variograms, r.s.variogram_info, TRUE)
  ELSE IF lines[pos].kw = "variogram"
  THEN LET r == TopVariogram(lines, pos, variograms, info, info_set)
       IN  IF r.raised THEN r
           ELSE TopLoop(lines, r.pos, structures, r.variograms, info, info_set)
  ELSE TopLoop(lines, pos + 1, structures, variograms, info, info_set)

\* read_struct_file(struct_file)
ReadStructFileOf(lines) == TopLoop(lines, 1, <<>>, <<>>, <<>>, FALSE)

\* a sequence with x put in after its first k elements
InsertAt(s, k, x) == SubSeq(s, 1, k) \o <<x>> \o SubSeq(s, k + 1, Len(s))

StructBody ==
  << Line("nugget", "", 0), Line("transform", "none", 0),
     Line("numvariogram", "", 1), Line("variogram", "v1", 2) >>

StructExtras == { Line("mean", "", 1), Line("#", "", 0), Line("foo", "", 1) }

VarioBodies ==
  { << Line("vartype", "", vt), Line("bearing", "", 0), Line("a", "", 10),
       Line("anisotropy", "", 1) >> : vt \in {1, 2} }

VarioExtras == { Line("#", "", 0), Line("bar", "", 1) }

InsertPlaces == {0, 2, 4}

\* the lines of a STRUCTURE block, then those of a VARIOGRAM block
StructBlocks ==
  { <<Line("structure", "s1", 0)>> \o b :
      b \in {StructBody} \cup {InsertAt(StructBody, k, x) : k \in InsertPlaces, x \in StructExtras} }

VarioBlocks ==
  { <<Line("variogram", "v1", 0)>> \o b :
      b \in VarioBodies
            \cup {InsertAt(vb, k, x) : vb \in VarioBodies, k \in InsertPlaces, x \in VarioExtras} }

\* structure files: complete, or ending inside the first or the second block
StructFiles ==
  StructBlocks
    \cup { sb \o <<Line("end", "structure", 0)>> \o vb : sb \in StructBlocks, vb \in VarioBlocks }
    \cup { sb \o <<Line("end", "structure", 0)>> \o vb \o <<Line("end", "variogram", 0)>> :
             sb \in StructBlocks, vb \in VarioBlocks }

NoRead == [op |-> "none", outcome |-> "none", error |-> "", keyword |-> "",
           lines |-> <<>>, structures |-> <<>>]

ReadStructFile(lines) ==
  /\ LET r == ReadStructFileOf(lines)
     IN  sfile' = IF r.raised
                  THEN [op |-> "read", outcome |-> "raised", error |-> r.error,
                        keyword |-> r.keyword, lines |-> lines, structures |-> <<>>]
                  ELSE [op |-> "read", outcome |-> "returned", error |-> "", keyword |-> "",
                        lines |-> lines, structures |-> r.structures]
  /\ UNCHANGED <<kvars, fvars, svars, gcov, ctor, kern>>

ReadNext == \E lines \in StructFiles : ReadStructFile(lines)

\* ------------------------------------------------------------------------
\* SpecSim2d.initialize: the covariance grid of a variogram
\* ------------------------------------------------------------------------
\* the real number p + q * sqrt(rad), p and q rational, kept in the form
\* whose radicand has no square factor (rad = 1 and q = 0 for a rational)
Surd(p, q, rad) ==
  IF rad = 0 \/ q = R(0) THEN [rat |-> p, coef |-> R(0), rad |-> 1]
  ELSE LET s == CHOOSE t \in 1..rad :
                  rad % (t * t) = 0 /\ \A u \in (t + 1)..rad : rad % (u * u) # 0
           f == rad \div (s * s)
       IN  IF f = 1 THEN [rat |-> RAdd(p, RMul(q, R(s))), coef |-> R(0), rad |-> 1]
           ELSE [rat |-> p, coef |-> RMul(q, R(s)), rad |-> f]

\* SphVario._h_function at the distance sqrt(h2), for a rational range a:
\* contribution * (1 - hh * (1.5 - 0.5 * hh * hh)) with hh = h / a, 0 where hh > 1
SphHFunctionSq(v, h2) ==
  LET a2 == RMul(v.a, v.a)
      q  == RMul(R(v.contribution),
                 RSub(RDiv(R(h2), RMul(R(2), RMul(a2, v.a))), RDiv(<<3, 2>>, v.a)))
  IN  IF RLt(a2, R(h2)) THEN Surd(R(0), R(0), 1)
      ELSE Surd(R(v.contribution), q, h2)

\* Vario2d._specsim_grid_contrib at the grid offset (dx, dy): the offsets are
\* rotated and scaled only for a bearing that is not a multiple of 90
SpecsimGridContrib(v, dx, dy) ==
  LET d == IF v.bearing % 90 # 0 THEN ApplyRotation(v, dx, dy) ELSE <<dx, dy>>
  IN  SphHFunctionSq(v, d[1] * d[1] + d[2] * d[2])

\* the effective variogram in unit space: a / delx[0]
EffectiveVario(v, dist) == [v EXCEPT !.a = Rat(v.a, dist)]

\* np.ceil of a non-negative rational
Ceil(q) == (q[1] + q[2] - 1) \div q[2]

\* the padding: three times the largest range, rounded up to a multiple of 8
FreqPad(mx_a) == Ceil(Rat(Ceil(RMul(mx_a, R(3))), 8)) * 8

\* the array c of initialize(): the variogram's contribution at every cell of
\* the padded, wrapped grid, the nugget added where the distance is zero
CovarianceGrid(v, nugget, delx, dely) ==
  LET eff    == EffectiveVario(v, delx[1])
      mx_dim == IF Len(delx) < Len(dely) THEN Len(dely) ELSE Len(delx)
      n      == mx_dim + 2 * FreqPad(eff.a)
      Wrap(k) == IF k < n - k THEN k ELSE n - k
  IN  Tab(LAMBDA i : Tab(LAMBDA j :
            LET h == SpecsimGridContrib(eff, Wrap(j - 1), Wrap(i - 1))
            IN  IF RLt(R(0), nugget) /\ i = 1 /\ j = 1
                THEN [h EXCEPT !.rat = RAdd(@, nugget)] ELSE h, n), n)

NoKern == [op |-> "none", outcome |-> "none", v |-> Vario1, nugget |-> R(0), c |-> <<>>]

\* SpecSim2d(delx, dely, GeoStruct(nugget, [v])): the constructor runs
\* initialize(), which raises or builds the covariance grid
NewSimOver(delx, dely, n, v) ==
  /\ LET r == InitializeSim([nugget |-> n, contribution |-> R(v.contribution),
                             bearing |-> v.bearing, delx |-> delx, dely |-> dely,
                             kernel |-> [nugget |-> R(0), contribution |-> R(0), bearing |-> 0]])
     IN  /\ sim' = IF r.raised THEN sim ELSE r.st
         /\ sret' = [NoSret EXCEPT !.op = "new",
                                   !.outcome = IF r.raised THEN "raised" ELSE "returned",
                                   !.delx = delx, !.dely = dely, !.bearing = v.bearing]
         /\ kern' = [op |-> "new", outcome |-> IF r.raised THEN "raised" ELSE "returned",
                     v |-> v, nugget |-> n,
                     c |-> IF r.raised THEN <<>> ELSE CovarianceGrid(v, n, delx, dely)]
  /\ UNCHANGED <<kvars, fvars, gcov, ctor, sfile>>

\* spherical variograms with and without anisotropy, at the grid-aligned
\* bearings and at one bearing that is not
KernVarios ==
  [vartype : {1}, contribution : {1}, a : {20, 25}, anisotropy : {1, 2},
   bearing : Bearings]

KernDel == { <<10, 10, 10>>, <<10, 12, 20>> }

KernelNext ==
  \E delx \in KernDel, n \in SimNuggets, v \in KernVarios : NewSimOver(delx, RegularDel, n, v)

OtherIdle == gcov = NoCov /\ ctor = NoCtor /\ sfile = NoRead /\ kern = NoKern

\* ------------------------------------------------------------------------
\* Specifications
\* ------------------------------------------------------------------------
vars == <<kvars, fvars, svars, ovars>>

FacInit == factors_file = NoFile /\ fac = NoFac

\* a SpecSim2d object that is not used
SimIdle ==
  /\ sim = [nugget |-> R(0), contribution |-> R(1), bearing |-> 0,
            delx |-> RegularDel, dely |-> RegularDel,
            kernel |-> [nugget |-> R(0), contribution |-> R(1), bearing |-> 0]]
  /\ sret = NoSret

\* calc_factors and calc_factors_grid on one engine
Init == KrigeInit /\ FacInit /\ SimIdle /\ OtherIdle

Spec == Init /\ [][KrigeNext]_vars

\* process w moves on: the steps of KrigeNext that change wpc[w] alone are
\* those of WorkerCrash, WorkerLen, WorkerPop and WorkerWork of w, and one of
\* them is enabled as long as the process runs
WorkerMoves(w) ==
  /\ wpc[w] \in {"start", "check", "pop", "work"}
  /\ \E p \in {"check", "pop", "work", "done", "crashed"} : wpc' = [wpc EXCEPT ![w] = p]

\* every started process is scheduled until it returns or dies, and the
\* parent gets past its joins once the processes are gone
PoolFairness ==
  /\ \A w \in Workers : WF_wpc(WorkerMoves(w))
  /\ WF_vars(MpJoin)

SpecLive == Init /\ [][KrigeNext]_vars /\ PoolFairness

\* the same with check_point_data_dist between the calls
DistNext == KrigeNext \/ \E rectify \in BOOLEAN : CheckPointDataDist(rectify)

SpecDist == Init /\ [][DistNext]_vars

\* grid factors written to a factors file and read back by fac2real
FacNext ==
  \/ CalcFactorsGridSeq
  \/ \E za \in ZoneArrays : CalcFactorsGridZoned(za, 1)
  \/ GridZonePass
  \/ GridZonesEnd
  \/ ToGridFactorsFile
  \/ \E pp \in PpTables, lo \in LowerLims, up \in UpperLims, fv \in FillValues :
       Fac2Real(pp, lo, up, fv)

SpecFac == Init /\ [][FacNext]_vars

\* one SpecSim2d object and the calls made on it
SimSpecInit ==
  /\ \E s \in Scenarios : s.point_data = PtsZoned /\ s.nugget = R(0) /\ EngineInit(s)
  /\ FacInit
  /\ SimInit
  /\ OtherIdle

SpecSim == SimSpecInit /\ [][SimNext]_vars

\* SpecSim2d objects built over one variogram each
SpecKernel == SimSpecInit /\ [][KernelNext]_vars

\* GeoStruct.covariance called on structures of every kind
CovSpecInit ==
  /\ \E s \in Scenarios : s.point_data = PtsZoned /\ s.nugget = R(0) /\ EngineInit(s)
  /\ FacInit
  /\ SimIdle
  /\ OtherIdle

SpecCov == CovSpecInit /\ [][CovNext]_vars

\* engines constructed from point tables, and used
SpecCtor == Init /\ [][CtorNext]_vars

\* the factors file written after any mix of calc_factors and calc_factors_grid
FileNext ==
  \/ \E t \in TargetLists : CalcFactorsSeq(t, NoZone)
  \/ FacNext

SpecFile == Init /\ [][FileNext]_vars

SpecNewSim == SimSpecInit /\ [][NewSimNext]_vars

\* fac2real on factors files of any producer
SpecHeader == Init /\ [][HeaderNext]_vars

\* an engine whose second zone holds two coincident points: a grid pass over
\* zone 1 solves, the pass over zone 2 meets a singular system
PtsTwoZones ==
  [zonecol |-> TRUE,
   rows |-> << [name |-> "p1", x |-> 0, y |-> 0, zone |-> 1],
               [name |-> "p2", x |-> 3, y |-> 4, zone |-> 2],
               [name |-> "p3", x |-> 3, y |-> 4, zone |-> 2] >>]

AbortScenarios ==
  Scenarios \cup
  { [point_data |-> PtsTwoZones, nugget |-> R(0), sort_kind |-> "stable",
     minpts_interp |-> 1, maxpts_interp |-> 3, search_radius |-> 100, forgive |-> f] :
      f \in BOOLEAN }

AbortInit ==
  /\ \E s \in AbortScenarios : EngineInit(s)
  /\ FacInit
  /\ SimIdle
  /\ OtherIdle

\* grid calls that abort in a zone pass, and the factors file written after them
SpecAbort == AbortInit /\ [][FileNext]_vars

\* structure files read one after the other
SpecRead == CovSpecInit /\ [][ReadNext]_vars

\* ------------------------------------------------------------------------
\* Properties
\* ------------------------------------------------------------------------
\* the last finished call was calc_factors, and the engine is as it left it
LastFactors == caller.pc = "idle" /\ ret.op = "factors"

SeqLast == LastFactors /\ ret.a.num_threads = 1

PoolLast == LastFactors /\ ret.a.num_threads > 1

Target(i) == [x |-> ret.targets[i][1], y |-> ret.targets[i][2]]

SameResult(r1, r2) ==
  r1.inames = r2.inames /\ r1.ifacts = r2.ifacts /\ r1.err_var = r2.err_var

Unestimated(row) ==
  row.inames = <<>> /\ row.ifacts = <<>> /\ row.idist = <<>> /\ IsNaN(row.err_var)

\* what the sequential loop body computes for target i alone, failures forgiven
TargetResult(i) ==
  OrgTarget(Engine, i - 1, ret.targets[i][1], ret.targets[i][2],
            [ret.a EXCEPT !.forgive = TRUE, !.num_threads = 1])

\* the linear solve fails for target i
SolveFails(i) == TargetResult(i).solved /\ TargetResult(i).row.ifacts = <<>>

\* the loop over the targets is entered (no zone is asked of a table without zones)
LoopEntered == ret.a.pt_zone = NoZone \/ point_data.zonecol

\* C1: for identical inputs, calc_factors through the worker pool returns for
\* every target the neighbour names, weights and error variance that the
\* sequential path returns.
C1_PoolEqualsSequential ==
  (PoolLast /\ ret.a.pt_zone = NoZone) =>
    LET s == CalcFactorsOrg(Engine, ret.targets, [ret.a EXCEPT !.num_threads = 1])
    IN  /\ ~s.raised
        /\ Len(s.rows) = Len(ret.df)
        /\ \A i \in 1..Len(ret.df) : SameResult(ret.df[i], s.rows[i])

\* C2: in the table a worker-pool batch returns, row i holds the result
\* computed for target i (or the placeholder when no worker computed it),
\* whatever the interleaving of the workers; when the workers ran, every row
\* i is exactly the result for target i.
C2_PoolRowIsTargetResult ==
  PoolLast =>
    /\ Len(ret.df) = Len(ret.targets)
    /\ \A i \in 1..Len(ret.df) :
         /\ ret.df[i].idx = i - 1
         /\ ret.df[i].x = ret.targets[i][1] /\ ret.df[i].y = ret.targets[i][2]
         /\ \/ ret.df[i] = TargetResult(i).row
            \/ ret.a.pt_zone # NoZone /\ Unestimated(ret.df[i])

C2_Witness ==
  /\ PoolLast /\ ret.a.pt_zone = NoZone
  /\ \E i, j \in 1..Len(ret.df) :
       /\ i < j
       /\ Len(ret.df[i].ifacts) >= 2
       /\ Len(ret.df[j].ifacts) >= 1
       /\ ret.df[i].inames # ret.df[j].inames

\* the targets of the last call whose solve does not fail, in order
RECURSIVE Solvable(_)
Solvable(i) ==
  IF i > Len(ret.targets) THEN <<>>
  ELSE IF SolveFails(i) THEN Solvable(i + 1)
  ELSE <<i>> \o Solvable(i + 1)

\* C3: sequential calc_factors with a target whose solve fails: forgive=False
\* aborts the call with an exception; forgive=True records that target as
\* unestimated, finishes the loop, and gives every other target the result
\* it gets when the failing targets are absent from the call.
C3_SequentialSolveFailure ==
  (SeqLast /\ LoopEntered /\ \E i \in 1..Len(ret.targets) : SolveFails(i)) =>
    IF ~ret.a.forgive THEN ret.outcome = "raised"
    ELSE /\ ret.outcome = "returned"
         /\ Len(ret.df) = Len(ret.targets)
         /\ \A i \in 1..Len(ret.targets) : SolveFails(i) => Unestimated(ret.df[i])
         /\ LET keep == Solvable(1)
                rest == CalcFactorsOrg(Engine, Tab(LAMBDA k : ret.targets[keep[k]], Len(keep)), ret.a)
            IN  /\ ~rest.raised
                /\ \A k \in 1..Len(keep) :
                     /\ SameResult(ret.df[keep[k]], rest.rows[k])
                     /\ ret.df[keep[k]].idist = rest.rows[k].idist

C3_Witness ==
  /\ SeqLast /\ ret.a.forgive /\ ret.outcome = "returned"
  /\ \E i, j \in 1..Len(ret.targets) :
       /\ SolveFails(i) /\ (i - 1) \in ret.solves
       /\ ret.df[j].ifacts # <<>>

\* C4: in the worker-pool path forgive governs a failed solve: forgive=False
\* ends the run with an error reported to the caller; forgive=True leaves the
\* failing target unestimated and the batch completes.
C4_PoolForgiveGovernsFailure ==
  (PoolLast /\ \E i \in ret.solves : ret.df[i + 1].ifacts = <<>>) =>
    IF ~ret.a.forgive THEN ret.outcome = "raised"
    ELSE /\ ret.outcome = "returned"
         /\ \A i \in ret.solves : ret.df[i + 1].ifacts = <<>> => Unestimated(ret.df[i + 1])

\* target i passes the min-neighbour test and a candidate point lies on it
ExactMatchCase(i) ==
  LET cands == Candidates(point_data.rows, ret.a.pt_zone)
      near  == {k \in 1..Len(cands) :
                  SqDist(cands[k], Target(i)) <= ret.a.search_radius * ret.a.search_radius}
  IN  /\ ~IsNanCoord(Target(i).x) /\ ~IsNanCoord(Target(i).y)
      /\ Cardinality(near) >= ret.a.minpts_interp
      /\ \E k \in near : SqDist(cands[k], Target(i)) = 0

\* C5: a target that reaches the exact-match test with its nearest selected
\* point within EPSILON gets exactly one neighbour, that point, with weight
\* 1.0 and the nugget as error variance, and no linear system is solved for
\* it, in the sequential and in the worker-pool path.
C5_ExactMatchShortcut ==
  (LastFactors /\ ret.outcome = "returned"
     /\ (ret.a.num_threads = 1 \/ ret.a.pt_zone = NoZone)) =>
    \A i \in 1..Len(ret.targets) :
      ExactMatchCase(i) =>
        /\ ret.df[i].ifacts = <<R(1)>>
        /\ Len(ret.df[i].inames) = 1
        /\ \E k \in 1..Len(point_data.rows) :
             /\ point_data.rows[k].name = ret.df[i].inames[1]
             /\ SqDist(point_data.rows[k], Target(i)) = 0
        /\ ret.df[i].err_var = geostruct.nugget
        /\ (i - 1) \notin ret.solves

C5_Witness ==
  /\ PoolLast /\ ret.a.pt_zone = NoZone
  /\ geostruct.nugget # R(0)
  /\ \E i \in 1..Len(ret.targets) : ExactMatchCase(i) /\ ret.df[i].err_var = geostruct.nugget

PointNamed(name) == point_data.rows[NameIdx(point_data.rows, name)]

\* the weights and error variance of row satisfy the kriging equations with
\* the covariances taken in the order of the row's names
KrigingHolds(row, t) ==
  LET n   == Len(row.inames)
      cov == SubCov(point_cov_df, point_data.rows, row.inames)
      c0  == CovPoints(geostruct, point_data.rows, t.x, t.y, row.inames)
      lam == RAdd(RSub(row.err_var, Sill(geostruct)),
                  RSum(Tab(LAMBDA k : RMul(row.ifacts[k], c0[k]), n)))
  IN  /\ RSum(row.ifacts) = R(1)
      /\ \A r \in 1..n :
           RAdd(RSum(Tab(LAMBDA k : RMul(cov[r][k], row.ifacts[k]), n)), lam) = c0[r]

\* C6: in every row calc_factors returns, the neighbour list is in ascending
\* distance to the target, holds at most max_neighbors entries which are the
\* nearest candidates within the radius, and the weights are in the order
\* of the names.
C6_NeighboursAscending ==
  (LastFactors /\ ret.outcome = "returned") =>
    \A i \in 1..Len(ret.df) :
      LET row   == ret.df[i]
          n     == Len(ret.df[i].inames)
          cands == Candidates(point_data.rows, ret.a.pt_zone)
      IN  /\ Len(row.idist) = n /\ Len(row.ifacts) = n
          /\ n <= ret.a.maxpts_interp
          /\ \A k \in 1..(n - 1) : RLe(row.idist[k], row.idist[k + 1])
          /\ (n > 0 /\ row.idist # <<EPSILON>>) =>
               /\ \A k \in 1..n :
                    RMul(row.idist[k], row.idist[k])
                      = R(SqDist(PointNamed(row.inames[k]), Target(i)))
               /\ \A c \in 1..Len(cands) :
                    (/\ \A k \in 1..n : row.inames[k] # cands[c].name
                     /\ SqDist(cands[c], Target(i))
                          <= ret.a.search_radius * ret.a.search_radius)
                    => RLe(RMul(row.idist[n], row.idist[n]), R(SqDist(cands[c], Target(i))))
               /\ KrigingHolds(row, Target(i))

C6_Witness ==
  /\ LastFactors /\ ret.outcome = "returned"
  /\ \E i \in 1..Len(ret.df) :
       /\ Len(ret.df[i].inames) = ret.a.maxpts_interp
       /\ Len(ret.df[i].inames) >= 2
       /\ Len(ret.df[i].inames) < Len(Candidates(point_data.rows, ret.a.pt_zone))
       /\ RLt(ret.df[i].idist[1], ret.df[i].idist[2])
       /\ (i - 1) \in ret.solves

\* C7: when grid_par_ensemble_helper leaves with an error, the structure's
\* nugget and variogram contribution are back at their values from before
\* the call.
C7_HelperRestoresOnError ==
  (sret.op = "helper" /\ sret.outcome = "raised") =>
    /\ sim.nugget = sret.org_nug
    /\ sim.contribution = sret.org_var

\* parval1 of the pilot point called name
ValueOf(pp_data, name) ==
  pp_data[CHOOSE k \in 1..Len(pp_data) : pp_data[k].name = name].parval1

\* floor(q * 10^k), digit by digit
RECURSIVE Fixed(_, _, _, _)
Fixed(q, r, d, k) ==
  IF k = 0 THEN q ELSE Fixed(q * 10 + ((r * 10) \div d), (r * 10) % d, d, k - 1)

\* equal within floating tolerance (1e-6)
Close(a, b) ==
  Abs(Fixed(a[1] \div a[2], a[1] % a[2], a[2], 7)
      - Fixed(b[1] \div b[2], b[1] % b[2], b[2], 7)) <= 10

\* the value the weights of row give with each weight on the point of its name
ByName(row, pp_data, transform) ==
  IF transform = "log"
  THEN Pow(RSum(Tab(LAMBDA k : RMul(row.ifacts[k], Log10(ValueOf(pp_data, row.inames[k]))),
                    Len(row.inames))))
  ELSE Lin(RSum(Tab(LAMBDA k : RMul(row.ifacts[k], R(ValueOf(pp_data, row.inames[k]))),
                    Len(row.inames))))

\* C8: after calc_factors_grid and to_grid_factors_file, fac2real with a
\* pilot point table of the same names returns at every estimated node the
\* sum of weight x value (or 10 to the sum of weight x log10 value) over the
\* node's neighbours, each weight applied to the value of the point of that
\* name (limits left at their defaults, equality within tolerance).
C8_RoundTripByName ==
  (/\ fac.outcome = "returned"
   /\ fac.lower_lim = NegPow(R(30)) /\ fac.upper_lim = Pow(R(30))) =>
    \A r \in 1..Len(interp_data.rows) :
      interp_data.rows[r].ifacts # <<>> =>
        LET got  == fac.arr[interp_data.rows[r].idx + 1]
            want == ByName(interp_data.rows[r], fac.pp_data, geostruct.transform)
        IN  got.k = want.k /\ Close(got.v, want.v)

\* the array of fac2real before the limits are applied
Unclipped ==
  FillArr(Tab(LAMBDA i : fac.fill_value, factors_file.nrow * factors_file.ncol),
          factors_file.lines, fac.pp_data, factors_file.ncol)

\* C9: in the array fac2real returns, a node no record visits holds
\* fill_value, and a node whose reconstructed value is below lower_lim or
\* above upper_lim holds fill_value.
C9_LimitsGiveFill ==
  fac.outcome = "returned" =>
    \A n \in 1..Len(fac.arr) :
      IF \A l \in 1..Len(factors_file.lines) : factors_file.lines[l].inode # n
      THEN fac.arr[n] = fac.fill_value
      ELSE (NumLt(Unclipped[n], fac.lower_lim) \/ NumLt(fac.upper_lim, Unclipped[n]))
             => fac.arr[n] = fac.fill_value

C11_CovarianceAtPointIsSill ==
  (gcov.op = "covariance" /\ gcov.pt0 = gcov.pt1) => gcov.cov = Real(Sill(gcov.gs))

C11_Witness ==
  /\ gcov.op = "covariance" /\ gcov.pt0 = gcov.pt1
  /\ gcov.gs.nugget = R(2)
  /\ {gcov.gs.variograms[k].vartype : k \in 1..Len(gcov.gs.variograms)} = {2, 3}
  /\ gcov.cov = Real(R(5))

\* C12: constructing the engine from a table with a repeated name fails with
\* the duplicate-point error when rows of one name differ in x or y; when they
\* have the same coordinates they collapse without warning or error and the
\* engine holds exactly one row per name.
C12_DuplicateNames ==
  (ctor.op = "init" /\ Cardinality({ctor.input[k].name : k \in 1..Len(ctor.input)}) # Len(ctor.input)) =>
    IF \E i, j \in 1..Len(ctor.input) :
         /\ ctor.input[i].name = ctor.input[j].name
         /\ <<ctor.input[i].x, ctor.input[i].y>> # <<ctor.input[j].x, ctor.input[j].y>>
    THEN ctor.outcome = "raised" /\ ctor.error = "Exception"
    ELSE /\ ctor.outcome = "returned"
         /\ ctor.warnings = <<>>
         /\ Cardinality({point_data.rows[k].name : k \in 1..Len(point_data.rows)})
              = Len(point_data.rows)
         /\ {point_data.rows[k].name : k \in 1..Len(point_data.rows)}
              = {ctor.input[k].name : k \in 1..Len(ctor.input)}

\* the points of the last call's zone within its search radius of target i
InReach(i) ==
  {k \in 1..Len(point_data.rows) :
     /\ ret.a.pt_zone = NoZone \/ point_data.rows[k].zone = ret.a.pt_zone
     /\ (point_data.rows[k].x - ret.targets[i][1]) * (point_data.rows[k].x - ret.targets[i][1])
          + (point_data.rows[k].y - ret.targets[i][2]) * (point_data.rows[k].y - ret.targets[i][2])
          <= ret.a.search_radius * ret.a.search_radius}

MissingTarget(i) == IsNanCoord(ret.targets[i][1]) \/ IsNanCoord(ret.targets[i][2])

\* C13: in the table calc_factors returns, sequential or worker pool, a
\* target with a NaN coordinate has empty name and weight lists and NaN error
\* variance, and a target with fewer than minpts_interp candidate points
\* within the search radius has empty lists and the sill as error variance.
C13_TooFewOrMissing ==
  (LastFactors /\ ret.outcome = "returned") =>
    \A i \in 1..Len(ret.df) :
      IF MissingTarget(i)
      THEN ret.df[i].inames = <<>> /\ ret.df[i].ifacts = <<>> /\ IsNaN(ret.df[i].err_var)
      ELSE Cardinality(InReach(i)) < ret.a.minpts_interp =>
             /\ ret.df[i].inames = <<>> /\ ret.df[i].ifacts = <<>>
             /\ ret.df[i].err_var = Sill(geostruct)

\* the zones of the point registry, in order of first appearance
RegistryZones == Unique(Tab(LAMBDA k : point_data.rows[k].zone, Len(point_data.rows)), {})

\* the registry zones that occur in the zone array of the last call
PassZones == SelectSeq(RegistryZones, LAMBDA z : InArray(z, ret.zone_array))

ZonedGridLast == caller.pc = "idle" /\ ret.op = "grid" /\ ret.zone_array # <<>>

\* the zones of the zone array that no point of the registry has
AbsentZones ==
  {ret.zone_array[i] : i \in 1..Len(ret.zone_array)}
    \ {RegistryZones[k] : k \in 1..Len(RegistryZones)}

\* the returned table is one block of grid nodes per pass, and in the block
\* of a zone every node outside that zone is unestimated
Concatenated ==
  /\ Len(ret.df) = Len(PassZones) * Len(GridTargets)
  /\ \A b \in 1..Len(PassZones), i \in 1..Len(GridTargets) :
       LET row == ret.df[(b - 1) * Len(GridTargets) + i]
       IN  /\ row.idx = i - 1
           /\ IF ret.zone_array[i] = PassZones[b]
              THEN row.x = GridTargets[i][1] /\ row.y = GridTargets[i][2]
              ELSE IsNanCoord(row.x) /\ IsNanCoord(row.y) /\ Unestimated(row)

\* C14 (as stated): when zoned calc_factors_grid returns, every zone of the
\* zone array that is absent from the point registry was skipped with a
\* warning, its nodes are unestimated, and the tables of the passes that ran
\* are concatenated into the returned table.
C14_AbsentZoneWarned ==
  (ZonedGridLast /\ ret.outcome = "returned") =>
    /\ \A z \in AbsentZones : \E k \in 1..Len(ret.warnings) : ret.warnings[k] = <<"skipping", z>>
    /\ Concatenated

\* C14 (amended): when zoned calc_factors_grid returns, the warnings name
\* exactly the registry zones that are absent from the zone array; a zone of
\* the zone array that is absent from the registry gets no pass and no
\* warning, and its nodes are unestimated in every pass; the tables of the
\* passes that ran are concatenated, in registry order, into the returned table.
C14_RegistryZoneWarned ==
  (ZonedGridLast /\ ret.outcome = "returned") =>
    /\ {ret.warnings[k] : k \in 1..Len(ret.warnings)} \ {<<"generic zone", 1>>}
         = {<<"skipping", RegistryZones[k]>> :
              k \in {k \in 1..Len(RegistryZones) : ~InArray(RegistryZones[k], ret.zone_array)}}
    /\ Concatenated

C14_Witness ==
  /\ ZonedGridLast /\ ret.outcome = "returned"
  /\ AbsentZones = {3}
  /\ ret.warnings = <<<<"skipping", 2>>>>
  /\ \E i \in 1..Len(ret.df) : ret.df[i].ifacts # <<>>

\* C15: as long as calc_factors_grid has not been called on the engine (also
\* when calc_factors was), to_grid_factors_file raises and no factors file
\* is written.
C15_FileOnlyAfterGrid ==
  ~grid_called =>
    /\ factors_file = NoFile
    /\ (caller.pc = "idle" /\ ret.op = "tofile") => ret.outcome = "raised"

C15_Witness ==
  /\ ~grid_called
  /\ ~interp_data.none
  /\ caller.pc = "idle" /\ ret.op = "tofile" /\ ret.outcome = "raised"
  /\ factors_file = NoFile

\* the cell sizes of d are all equal within the tolerance
UniformSpacing(d) ==
  \A i, j \in 1..Len(d) : d[i] - d[j] <= Tol

KnownKeywords ==
  {"#", "nugget", "transform", "numvariogram", "variogram", "mean", "end",
   "vartype", "bearing", "a", "anisotropy", "structure"}

\* the lines of the file read last that begin with an unknown keyword
UnknownLines == {k \in 1..Len(sfile.lines) : sfile.lines[k].kw \notin KnownKeywords}

\* C17: reading a structure file with an unrecognized keyword inside a
\* STRUCTURE or VARIOGRAM block raises an error that names the (first such)
\* keyword, and a file that ends before the END of its last block raises an
\* error; no structure is returned in either case.
C17_MalformedStructFile ==
  sfile.op = "read" =>
    /\ UnknownLines # {} =>
         /\ sfile.outcome = "raised" /\ sfile.structures = <<>>
         /\ sfile.error = "Exception: unrecognized"
         /\ sfile.keyword = sfile.lines[CHOOSE k \in UnknownLines : \A j \in UnknownLines : k <= j].kw
    /\ (UnknownLines = {} /\ sfile.lines[Len(sfile.lines)].kw # "end") =>
         /\ sfile.outcome = "raised" /\ sfile.structures = <<>>
         /\ sfile.error = "Exception: EOF"

C17_Witness ==
  /\ sfile.op = "read" /\ sfile.outcome = "raised"
  /\ sfile.keyword = "bar"
  /\ sfile.lines[Len(sfile.lines)].kw # "end"


\* ------------------------------------------------------------------------
\* worker pool: the shared queue and the result slots
\* ------------------------------------------------------------------------
\* the processes of the running batch have all been joined
BatchJoined == caller.pc = "mp" /\ AllJoined

Slots == 1..Len(pool.taken)

\* no tuple is popped twice and no slot is written in two worker passes
PoppedAtMostOnce ==
  \A i \in Slots : pool.taken[i] <= 1 /\ pool.writes[i] <= 1

\* two workers were between the emptiness test and the pop with one tuple left
RacedForLast ==
  /\ Len(pool.point_pairs) = 1
  /\ \A w \in Workers : wpc[w] = "pop"

\* C18: in the worker-pool path every queued target is popped from the shared
\* queue by exactly one worker, never by two and never left behind, whatever
\* the interleaving of the emptiness test and the pop, and every result slot
\* is written by at most one worker.
C18_PoppedExactlyOnce ==
  /\ PoppedAtMostOnce
  /\ BatchJoined => \A i \in Slots : pool.taken[i] = 1


\* the table on hand is the one the last worker-pool batch returned
PoolReturned ==
  /\ caller.pc = "idle"
  /\ ret.outcome = "returned"
  /\ ret.a.num_threads > 1
  /\ ret.zone_array = <<>>

\* a row or slot as the pool pre-populates it
DefaultRow(r) == r.idist = <<>> /\ r.inames = <<>> /\ r.ifacts = <<>> /\ r.err_var = NaN

\* C19: the pool pre-populates every result slot with empty lists and NaN, and
\* a slot no worker writes (NaN target, failed solve, target never reached)
\* keeps these defaults, in the manager lists and in the returned table.
C19_UnwrittenKeepDefaults ==
  /\ \A i \in Slots :
        pool.writes[i] = 0 =>
          /\ pool.idist[i] = <<>> /\ pool.inames[i] = <<>> /\ pool.ifacts[i] = <<>>
          /\ pool.err_var[i] = NaN
  /\ PoolReturned =>
        /\ Len(ret.df) = Len(pool.writes)
        /\ \A i \in Slots : pool.writes[i] = 0 => DefaultRow(ret.df[i])

\* a returned pool table with a NaN target, popped and left unwritten, beside
\* a written slot
C19_Witness ==
  /\ PoolReturned
  /\ \E i, k \in Slots :
        /\ pool.writes[i] = 0 /\ pool.taken[i] = 1 /\ MissingTarget(i)
        /\ pool.writes[k] = 1

\* a returned pool table with a failed solve, its slot popped and left unwritten
C19_FailedSolve ==
  /\ PoolReturned
  /\ \E j \in Slots : pool.writes[j] = 0 /\ pool.taken[j] = 1 /\ ~MissingTarget(j)

\* a returned pool table none of whose targets was reached
C19_NeverReached ==
  /\ PoolReturned
  /\ Slots # {}
  /\ \A i \in Slots : pool.taken[i] = 0


\* the zone of the point named n
ZoneOf(n) == point_data.rows[NameIdx(point_data.rows, n)].zone

\* C20: calc_factors with pt_zone set and num_threads > 1 gives a non-NaN
\* target that has at least minpts_interp points of that zone within the
\* search radius (and a solvable system) a non-empty weight list built only
\* from points of that zone, as the sequential path does.
C20_PoolZoneRestriction ==
  (PoolLast /\ ret.a.pt_zone # NoZone /\ point_data.zonecol) =>
    \A i \in 1..Len(ret.df) :
      (~MissingTarget(i) /\ Cardinality(InReach(i)) >= ret.a.minpts_interp /\ ~SolveFails(i)) =>
        /\ ret.df[i].ifacts # <<>>
        /\ Len(ret.df[i].inames) = Len(ret.df[i].ifacts)
        /\ \A k \in 1..Len(ret.df[i].inames) : ZoneOf(ret.df[i].inames[k]) = ret.a.pt_zone

\* the sequential path: the same statement for num_threads == 1
SeqZoneRestriction ==
  (SeqLast /\ ret.a.pt_zone # NoZone /\ point_data.zonecol) =>
    \A i \in 1..Len(ret.df) :
      (~MissingTarget(i) /\ Cardinality(InReach(i)) >= ret.a.minpts_interp /\ ~SolveFails(i)) =>
        /\ ret.df[i].ifacts # <<>>
        /\ Len(ret.df[i].inames) = Len(ret.df[i].ifacts)
        /\ \A k \in 1..Len(ret.df[i].inames) : ZoneOf(ret.df[i].inames[k]) = ret.a.pt_zone


\* ------------------------------------------------------------------------
\* the factors file against the table it was written from
\* ------------------------------------------------------------------------
\* to_grid_factors_file was the last call and it wrote the file
FileWritten == caller.pc = "idle" /\ ret.op = "tofile" /\ ret.outcome = "returned"

HasFactors(r) == Len(r.ifacts) > 0

\* the rows of interp_data that have a non-empty weight list, in table order
FactorRows == SelectSeq(interp_data.rows, HasFactors)

\* C21: to_grid_factors_file writes exactly one record for every target with a
\* non-empty weight list and none for a target without neighbours; a record's
\* node index is the target's 0-based index plus 1, its neighbour count is the
\* number of (point index, weight) pairs that follow, and each point index is
\* the 1-based position of the neighbour's name in the header's name list.
C21_OneRecordPerEstimatedTarget ==
  FileWritten =>
    /\ factors_file.exists
    /\ Len(factors_file.lines) = Len(FactorRows)
    /\ \A i \in 1..Len(FactorRows) :
         LET l == factors_file.lines[i]
             r == FactorRows[i]
         IN  /\ l.inode = r.idx + 1
             /\ l.nfac = Len(l.facs)
             /\ l.nfac = Len(r.inames)
             /\ \A k \in 1..Len(l.facs) :
                  /\ l.facs[k][1] \in 1..Len(factors_file.pp_names)
                  /\ factors_file.pp_names[l.facs[k][1]] = r.inames[k]

\* a file written from a table with an estimated target of several neighbours
\* and a target without neighbours
C21_Witness ==
  /\ FileWritten
  /\ \E i \in 1..Len(interp_data.rows) : Len(interp_data.rows[i].ifacts) >= 2
  /\ \E i \in 1..Len(interp_data.rows) : interp_data.rows[i].ifacts = <<>>
  /\ Len(factors_file.lines) >= 1


\* ------------------------------------------------------------------------
\* grid_par_ensemble_helper on normal return
\* ------------------------------------------------------------------------
HelperReturned == sret.op = "helper" /\ sret.outcome = "returned"

\* C22: when grid_par_ensemble_helper returns normally the nugget and the
\* contribution are what they were before the call, initialize() has run
\* after the restoration and after every per-group rescale: every draw of the
\* loop, and the simulator left behind, has the kernel of the structure as
\* it stood then.
C22_HelperRestoresAndReinitializes ==
  HelperReturned =>
    /\ sim.nugget = sret.org_nug
    /\ sim.contribution = sret.org_var
    /\ sim.kernel = KernelOf(sim)
    /\ sret.draws # <<>>
    /\ \A k \in 1..Len(sret.draws) : sret.draws[k].kernel = KernelOf(sret.draws[k])

\* a normal return after two groups whose draws used structures other than
\* the original one
C22_Witness ==
  /\ HelperReturned
  /\ Len(sret.draws) = 2
  /\ \A k \in 1..2 : sret.draws[k].contribution # sret.org_var
  /\ sret.draws[1].contribution # sret.draws[2].contribution


\* ------------------------------------------------------------------------
\* fac2real: the names of the point source against the header
\* ------------------------------------------------------------------------
SourceNames == NameSet(Tab(LAMBDA k : fac.pp_data[k].name, Len(fac.pp_data)))

\* the header's names as the file lists them, and as fac2real reads them
ListedNames == NameSet(fac.header)

ReadNames == {Lower(n) : n \in ListedNames}

\* C23 as stated: fac2real raises, producing no array, whenever the set of
\* point names of the pilot-point source differs from the set of names listed
\* in the header of the factors file, and the error names the points that are
\* not common to both.
C23_RaisesOnListedNames ==
  (fac.outcome # "none" /\ SourceNames # ListedNames) =>
    /\ fac.outcome = "raised"
    /\ fac.arr = <<>>
    /\ fac.diff = (SourceNames \ ListedNames) \cup (ListedNames \ SourceNames)

\* C23 amended: fac2real raises, producing no array, whenever the set of
\* point names of the pilot-point table differs from the set of lower-cased
\* header names, and the error names the points not common to these two sets.
C23_RaisesOnReadNames ==
  (fac.outcome # "none" /\ SourceNames # ReadNames) =>
    /\ fac.outcome = "raised"
    /\ fac.arr = <<>>
    /\ fac.diff # {}
    /\ fac.diff = (SourceNames \ ReadNames) \cup (ReadNames \ SourceNames)

\* a raise that names a point only the source has and a point only the header has
C23_Witness ==
  /\ fac.outcome = "raised"
  /\ \E n \in fac.diff : n \in SourceNames /\ n \notin ReadNames
  /\ \E n \in fac.diff : n \in ReadNames /\ n \notin SourceNames


\* ------------------------------------------------------------------------
\* the point registry between the calls
\* ------------------------------------------------------------------------
\* C24: after construction no calc_factors, calc_factors_grid (with or without
\* a zone array) or to_grid_factors_file call changes the registry's points,
\* their names, coordinates or zone tags, nor the point covariance matrix.
C24_RegistryImmutable ==
  [][point_data' = point_data /\ point_cov_df' = point_cov_df]_vars

\* the covariance matrix alone is never changed
CovarianceImmutable == [][point_cov_df' = point_cov_df]_vars

\* names and coordinates alone are never changed
CoordinatesImmutable ==
  [][/\ Len(point_data'.rows) = Len(point_data.rows)
     /\ \A k \in 1..Len(point_data.rows) :
          /\ point_data'.rows[k].name = point_data.rows[k].name
          /\ point_data'.rows[k].x = point_data.rows[k].x
          /\ point_data'.rows[k].y = point_data.rows[k].y]_vars


\* ------------------------------------------------------------------------
\* the neighbours of a target
\* ------------------------------------------------------------------------
\* the candidate points of the last call that are not among the neighbours of row i
LeftOut(i) ==
  {c \in NameSet(Tab(LAMBDA k : Candidates(point_data.rows, ret.a.pt_zone)[k].name,
                     Len(Candidates(point_data.rows, ret.a.pt_zone)))) :
     \A k \in 1..Len(ret.df[i].inames) : ret.df[i].inames[k] # c}

\* C25: for every target the neighbours in the result are distinct registered
\* points (of the zone asked for), all within search_radius of the target, at
\* most maxpts_interp in number, and the nearest candidates: no candidate left
\* out is strictly closer to the target than a neighbour that was used.
C25_NearestNeighbours ==
  (LastFactors /\ ret.outcome = "returned") =>
    \A i \in 1..Len(ret.df) :
      LET names == ret.df[i].inames
      IN  /\ Len(names) <= ret.a.maxpts_interp
          /\ \A k, l \in 1..Len(names) : names[k] = names[l] => k = l
          /\ \A k \in 1..Len(names) :
               /\ \E r \in 1..Len(point_data.rows) :
                    /\ point_data.rows[r].name = names[k]
                    /\ ret.a.pt_zone # NoZone => point_data.rows[r].zone = ret.a.pt_zone
               /\ SqDist(PointNamed(names[k]), Target(i))
                    <= ret.a.search_radius * ret.a.search_radius
               /\ \A c \in LeftOut(i) :
                    SqDist(PointNamed(c), Target(i)) >= SqDist(PointNamed(names[k]), Target(i))

\* a returned row of several neighbours that leaves out a candidate within the
\* radius, farther away than every neighbour used
C25_Witness ==
  /\ LastFactors /\ ret.outcome = "returned"
  /\ \E i \in 1..Len(ret.df) :
       /\ Len(ret.df[i].inames) >= 2
       /\ \E c \in LeftOut(i) :
            /\ SqDist(PointNamed(c), Target(i)) <= ret.a.search_radius * ret.a.search_radius
            /\ \A k \in 1..Len(ret.df[i].inames) :
                 SqDist(PointNamed(c), Target(i)) > SqDist(PointNamed(ret.df[i].inames[k]), Target(i))


\* ------------------------------------------------------------------------
\* worker pool: termination
\* ------------------------------------------------------------------------
\* a started batch comes to its end: every process is gone and the joins return
BatchReturns == (caller.pc = "mp") ~> (caller.pc # "mp")

WorkersExit == (caller.pc = "mp") ~> AllJoined

\* C26: in the worker-pool path every worker eventually exits and the batch
\* returns; and when the batch returns the work queue is empty, every target
\* having been taken by some worker.
C26_PoolTerminatesWithEmptyQueue ==
  /\ WorkersExit
  /\ BatchReturns
  /\ [](BatchJoined => pool.point_pairs = <<>>)


\* ------------------------------------------------------------------------
\* calc_factors_grid leaving with an error
\* ------------------------------------------------------------------------
GridAborted == caller.pc = "idle" /\ ret.op = "grid" /\ ret.outcome = "raised"

\* C27: when calc_factors_grid aborts with an error no partial results remain
\* on the engine: interp_data is None afterwards, and a to_grid_factors_file
\* that follows raises instead of writing a file.
C27_NoPartialResultsAfterAbort ==
  /\ [](GridAborted => interp_data.none)
  /\ [][(GridAborted /\ ret'.op = "tofile") => ret'.outcome = "raised"]_vars

\* the same for an abort of the call without zone array
NoZoneAbortLeavesNone ==
  (GridAborted /\ ret.zone_array = <<>>) => interp_data.none

\* a factors file of the rows of zone 1 alone, written after the pass of zone 2
\* aborted the grid call
PartialFileWritten ==
  /\ FileWritten
  /\ factors_file.lines # <<>>
  /\ point_data = PtsTwoZones
  /\ ~params.forgive


\* ------------------------------------------------------------------------
\* zoned calc_factors_grid: one pass per node
\* ------------------------------------------------------------------------
ZonedGridReturned == ZonedGridLast /\ ret.outcome = "returned"

\* the rows of interp_data that give node index idx a weight list
NodeRows(idx) ==
  {k \in 1..Len(interp_data.rows) :
     interp_data.rows[k].idx = idx /\ interp_data.rows[k].ifacts # <<>>}

\* C28: in zoned calc_factors_grid each grid node receives a non-empty weight
\* list in at most one zone pass, the pass of the zone the zone array gives
\* it, so the factors file written next has at most one record per node
\* index, and its neighbours all belong to the zone of that node.
C28_OnePassPerNode ==
  /\ [](ZonedGridReturned =>
          \A n \in 1..Len(GridTargets) :
            /\ Cardinality(NodeRows(n - 1)) <= 1
            /\ \A k \in NodeRows(n - 1) :
                 \A j \in 1..Len(interp_data.rows[k].inames) :
                   ZoneOf(interp_data.rows[k].inames[j]) = ret.zone_array[n])
  /\ [][(ZonedGridReturned /\ ret'.op = "tofile") =>
          /\ ret'.outcome = "returned"
          /\ \A a, b \in 1..Len(factors_file'.lines) :
               factors_file'.lines[a].inode = factors_file'.lines[b].inode => a = b
          /\ \A a \in 1..Len(factors_file'.lines) :
               \A j \in 1..Len(factors_file'.lines[a].facs) :
                 ZoneOf(factors_file'.pp_names[factors_file'.lines[a].facs[j][1]])
                   = ret.zone_array[factors_file'.lines[a].inode]]_vars

\* a factors file written from the table of two zone passes, with records of
\* nodes of two zones
C28_Witness ==
  /\ FileWritten
  /\ Len(interp_data.rows) = 2 * Len(GridTargets)
  /\ \E a, b \in 1..Len(factors_file.lines) :
       /\ factors_file.lines[a].inode # factors_file.lines[b].inode
       /\ ZoneOf(factors_file.pp_names[factors_file.lines[a].facs[1][1]])
            # ZoneOf(factors_file.pp_names[factors_file.lines[b].facs[1][1]])

\* ------------------------------------------------------------------------
\* one covariance for the kriging matrix and the kriging right-hand side
\* ------------------------------------------------------------------------
\* a registered point as the (x, y) pair GeoStruct.covariance takes
PointOf(i) == <<point_data.rows[i].x, point_data.rows[i].y>>

\* GeoStruct.covariance_points of registered point i against registered point j
PointsValue(i, j) ==
  GsCovPoints(geostruct, point_data.rows[i].x, point_data.rows[i].y,
              <<point_data.rows[j]>>)[1]

\* C29: for every two distinct registered points i and j, entry (i, j) of the
\* matrix built by GeoStruct.covariance_matrix equals
\* GeoStruct.covariance(p_i, p_j) and equals the value
\* GeoStruct.covariance_points gives for that pair, nugget included.
C29_OneCovariance ==
  \A i, j \in 1..Len(point_data.rows) :
    i # j =>
      /\ Real(point_cov_df[i][j]) = GsCovariance(geostruct, PointOf(i), PointOf(j))
      /\ point_cov_df[i][j] = PointsValue(i, j)

\* the three functions agree on the variograms' part: the matrix entry plus
\* the nugget is what covariance and covariance_points return
MatrixOmitsNugget ==
  \A i, j \in 1..Len(point_data.rows) :
    i # j =>
      /\ Real(RAdd(geostruct.nugget, point_cov_df[i][j]))
           = GsCovariance(geostruct, PointOf(i), PointOf(j))
      /\ RAdd(geostruct.nugget, point_cov_df[i][j]) = PointsValue(i, j)

\* an engine with a nugget whose kriging system has been solved for a target
NuggetSolved ==
  /\ geostruct.nugget # R(0)
  /\ ret.outcome = "returned"
  /\ ~interp_data.none
  /\ \E k \in 1..Len(interp_data.rows) : interp_data.rows[k].ifacts # <<>>

\* ------------------------------------------------------------------------
\* the anisotropy ratio in the spectral simulator
\* ------------------------------------------------------------------------
\* the last SpecSim2d was built over a variogram with a grid-aligned bearing
\* and an anisotropy ratio other than 1
AnisotropicBuilt ==
  /\ kern.op = "new" /\ kern.outcome = "returned"
  /\ kern.v.bearing % 90 = 0
  /\ kern.v.anisotropy # 1

\* the covariance grid of the same call with the variogram's ratio set to 1
IsotropicGrid ==
  CovarianceGrid([kern.v EXCEPT !.anisotropy = 1], kern.nugget, sret.delx, sret.dely)

\* C30: for a bearing that is a multiple of 90 degrees and an anisotropy ratio
\* other than 1, the covariance kernel built by initialize() differs from the
\* kernel of the same variogram with ratio 1.
C30_AnisotropyTakesEffect == AnisotropicBuilt => kern.c # IsotropicGrid

\* what initialize() does instead: for every bearing it accepts the grid is
\* the grid of the isotropic variogram
AnisotropyIgnored ==
  (kern.op = "new" /\ kern.outcome = "returned") => kern.c = IsotropicGrid

\* the grid the ratio would give if the offset along the minor axis were
\* scaled: a cell one unit along y is further than a cell one unit along x
ScalingWouldShow ==
  AnisotropicBuilt =>
    SphHFunctionSq(EffectiveVario(kern.v, sret.delx[1]),
                   kern.v.anisotropy * kern.v.anisotropy) # kern.c[1][2]

====
